---- MODULE Spec2Model ----
(***************************************************************************)
(* Verification model of the DataJunction query builder and of the         *)
(* authorization verifier (datajunction/auth/verifier.py,                  *)
(* datajunction/sql/build.py).                                             *)
(*                                                                         *)
(* The generic parse tree produced by sqloxide is represented by records:  *)
(*   part       [value, quote_style]          one identifier of a name     *)
(*   table      [name : Seq(part), alias]     a "Table" node               *)
(*   expression [tag, parts]                  "Identifier" (one part) or   *)
(*                                            "CompoundIdentifier"         *)
(*   projection [tag, alias, func, expr]      "UnnamedExpr"/"ExprWithAlias"*)
(*   statement  [tables, projection]          one statement = one Select   *)
(*   tree       Seq(statement)                                             *)
(* Python's None is the value None below.                                  *)
(***************************************************************************)
EXTENDS Integers, Sequences, FiniteSets, TLC

VARIABLES
    query,        \* verify_query: the parsed tree of the submitted query text
    database,     \* verify_query: the database argument
    catalog,      \* verify_query: the catalog argument (None when unset)
    schema,       \* verify_query: the schema argument (None when unset)
    permissions,  \* verify_query: the list of permissions (each one already split in statements)
    tree,         \* verify_query: the tree as mutated by prepare_tree
    pc,           \* verify_query: position in the control flow
    si,           \* index of the statement in the all() of verify_query
    pi,           \* index of the permission in the all() of verify_statement
    ki,           \* index of the permission statement in the any() of verify_statement
    call,         \* the last call of matches_permission: arguments and result
    raised,       \* the exception raised by verify_query ("none" when none)
    result,       \* the boolean returned by verify_query (when pc = "done" and nothing was raised)
    node,                  \* get_query_for_node: the name of the node
    groupbys,              \* get_query_for_node: the list of group-by dimensions
    filters,               \* get_query_for_node: the list of filter strings
    database_id,           \* get_query_for_node: the database asked for, <<id>> (<<>> when None)
    requested_dimensions,  \* get_query_for_node: the set requested_dimensions
    pending,               \* the requested dimensions the loop over them has not visited yet
    dimensions,            \* get_query_for_node: the keys of the dictionary dimensions, in insertion order
    referenced_columns,    \* get_query_for_node: the dictionary referenced_columns
    node_database,         \* get_query_for_node: the database found, <<id>> (<<>> before)
    node_select,           \* get_query_for_node: the statement built
    step,                  \* get_query_for_node: position in the control flow
    exception,             \* get_query_for_node: the exception raised, with the names its message lists
    called,                \* a function called on its own: its name ("none" before the call)
    arguments,             \* a function called on its own: its arguments
    returned               \* a function called on its own: what it returned or raised

verifier_vars == <<query, database, catalog, schema, permissions, tree, pc, si, pi, ki,
                   call, raised, result>>

builder_vars == <<node, groupbys, filters, database_id, requested_dimensions, pending,
                  dimensions, referenced_columns, node_database, node_select, step, exception>>

function_vars == <<called, arguments, returned>>

vars == <<verifier_vars, builder_vars, function_vars>>

-----------------------------------------------------------------------------
(* Bounds of the model *)

MaxStatements == 2

MaxPermissions == 2

MaxGroupbys == 2

MaxFilters == 1

\* the longest projection of a query passed to get_query_for_sql
MaxProjection == 2

\* the most add_table / add_namespace calls made on one column
MaxCalls == 2

\* the most parents of a node whose dimensions are listed
MaxParents == 3

\* the most rows of the table of databases when the migration runs
MaxRows == 3

\* the most cursors made on one connection
MaxCursors == 3

-----------------------------------------------------------------------------
(* Python values and helpers *)

None == "<None>"

NULL == "null"

Min(a, b) == IF a < b THEN a ELSE b

Max(a, b) == IF a < b THEN b ELSE a

\* seq[:n] of Python: a negative n counts from the end
SliceTo(seq, n) ==
    LET stop == IF n < 0 THEN Max(Len(seq) + n, 0) ELSE Min(n, Len(seq))
    IN  SubSeq(seq, 1, stop)

SeqsUpTo(S, n) == UNION {[1..m -> S] : m \in 0..n}

Ident(v) == [value |-> v, quote_style |-> None]

Quoted(v) == [value |-> v, quote_style |-> "\""]

Name1(a) == <<Ident(a)>>

Name2(a, b) == <<Ident(a), Ident(b)>>

Name4(a, b, c, d) == <<Ident(a), Ident(b), Ident(c), Ident(d)>>

-----------------------------------------------------------------------------
(* The schema-introspection collaborator: the columns of the physical      *)
(* tables of the engine, by (schema, table).                               *)

Inspector(schema_, table_) ==
    CASE table_ = "sales"  -> <<"event_time", "price">>
      [] table_ = "orders" -> <<"order_id", "price">>
      [] OTHER             -> <<>>

\* get_column_names: only the last two parts of the name are used
get_column_names(fq_table) ==
    LET values == [n \in 1..Len(fq_table.name) |-> fq_table.name[n].value]
        len    == Len(values)
    IN  Inspector(values[len - 1], values[len])

-----------------------------------------------------------------------------
(* find_nodes_by_key over the record representation of the tree *)

\* all "Table" nodes of a tree, as <<statement index, table index>>, in document order
RECURSIVE TablePaths(_, _)
TablePaths(t, n) ==
    IF n > Len(t) THEN <<>>
    ELSE [m \in 1..Len(t[n].tables) |-> <<n, m>>] \o TablePaths(t, n + 1)

TableAt(t, path) == t[path[1]].tables[path[2]]

Range(seq) == {seq[n] : n \in 1..Len(seq)}

-----------------------------------------------------------------------------
(* prepare_tree *)

\* the prefix built from the caller's (database, catalog, schema)
Prefix(database_, catalog_, schema_) ==
    <<Ident(database_), Ident(catalog_), Ident(schema_)>>

\* a faulty variant of QualifyTable: pads with the end of the prefix
QualifyTableSuffix(prefix, table) ==
    [table EXCEPT !.name =
        SubSeq(prefix, Len(prefix) - Max(4 - Len(table.name), 0) + 1, Len(prefix))
            \o table.name]

\* table["name"] = prefix[: 4 - len(name)] + name
QualifyTable(prefix, table) ==
    [table EXCEPT !.name = SliceTo(prefix, 4 - Len(table.name)) \o table.name]

\* the first loop of prepare_tree, as far as it rewrites the tree
QualifyTables(prefix, t) ==
    [n \in 1..Len(t) |->
        [t[n] EXCEPT !.tables =
            [m \in 1..Len(t[n].tables) |-> QualifyTable(prefix, t[n].tables[m])]]]

\* key = ".".join(part["value"] or NULL for part in table["name"]); the
\* identifiers of the model contain no dot, so the joined string is
\* represented by the sequence of its components
TableKey(name) ==
    [n \in 1..Len(name) |-> IF name[n].value = None THEN NULL ELSE name[n].value]

\* the dictionary "tables": under each key the last table of the tree with it
TablesDict(t) ==
    LET paths == TablePaths(t, 1)
        keys  == [n \in 1..Len(paths) |-> TableKey(TableAt(t, paths[n]).name)]
    IN  [key \in Range(keys) |->
            TableAt(t, paths[CHOOSE n \in 1..Len(paths) :
                                /\ keys[n] = key
                                /\ \A o \in (n + 1)..Len(paths) : keys[o] # key])]

\* the dictionary "columns": columns[key] = get_column_names(engine, table)
ColumnsDict(t) ==
    LET tables == TablesDict(t)
    IN  [key \in DOMAIN tables |-> get_column_names(tables[key])]

\* the keys of table_aliases of one select
AliasKeys(select) ==
    {select.tables[m].alias : m \in 1..Len(select.tables)} \ {None}

\* table_aliases[alias]: the name of the last table of the select with the alias
TableAliases(select, alias) ==
    LET last == CHOOSE m \in 1..Len(select.tables) :
                    /\ select.tables[m].alias = alias
                    /\ \A o \in (m + 1)..Len(select.tables) :
                          select.tables[o].alias # alias
    IN  select.tables[last].name

\* table["alias"] = None for every table of the select
DropTableAliases(select) ==
    [select EXCEPT !.tables =
        [m \in 1..Len(select.tables) |-> [select.tables[m] EXCEPT !.alias = None]]]

\* a faulty variant of QualifyCompound: pads as if for a table name
QualifyCompoundFour(prefix, select, expr) ==
    IF expr.tag # "CompoundIdentifier" THEN expr
    ELSE LET cid    == expr.parts
             table  == cid[Len(cid) - 1]
             column == cid[Len(cid)]
         IN  IF table.value \in AliasKeys(select)
             THEN [expr EXCEPT !.parts = TableAliases(select, table.value) \o <<column>>]
             ELSE [expr EXCEPT !.parts = SliceTo(prefix, 4 - Len(cid)) \o cid]

\* the loop over the compound identifiers of a select, for one expression
QualifyCompound(prefix, select, expr) ==
    IF expr.tag # "CompoundIdentifier" THEN expr
    ELSE LET cid    == expr.parts
             table  == cid[Len(cid) - 1]
             column == cid[Len(cid)]
         IN  IF table.value \in AliasKeys(select)
             THEN [expr EXCEPT !.parts = TableAliases(select, table.value) \o <<column>>]
             ELSE [expr EXCEPT !.parts = SliceTo(prefix, 5 - Len(cid)) \o cid]

\* candidates = [key for key, value in columns.items() if id_["value"] in value]
Candidates(columns, id) ==
    {key \in DOMAIN columns : id.value \in Range(columns[key])}

\* the loop over the bare identifiers of a select, for one expression: the
\* exception it raises ("none" when it raises nothing)
IdentifierError(columns, expr) ==
    IF expr.tag # "Identifier" THEN "none"
    ELSE IF Candidates(columns, expr.parts[1]) = {} THEN "not_found"
    ELSE IF Cardinality(Candidates(columns, expr.parts[1])) > 1 THEN "ambiguous"
    ELSE "none"

\* parent["CompoundIdentifier"] = table["name"] + [id_]; parent.pop("Identifier")
QualifyIdentifier(columns, tables, expr) ==
    IF expr.tag # "Identifier" THEN expr
    ELSE LET key == CHOOSE c \in Candidates(columns, expr.parts[1]) : TRUE
         IN  [tag |-> "CompoundIdentifier",
              parts |-> tables[key].name \o <<expr.parts[1]>>]

\* the first exception raised by the identifiers of a projection, from item n on
RECURSIVE FirstIdentifierError(_, _, _)
FirstIdentifierError(columns, projection, n) ==
    IF n > Len(projection) THEN "none"
    ELSE IF IdentifierError(columns, projection[n].expr) # "none"
         THEN IdentifierError(columns, projection[n].expr)
         ELSE FirstIdentifierError(columns, projection, n + 1)

\* the body of "for select in find_nodes_by_key(tree, 'Select')" for one select
QualifySelect(prefix, columns, tables, select) ==
    LET unaliased == DropTableAliases(select)
        compound  == [n \in 1..Len(select.projection) |->
                        [select.projection[n] EXCEPT
                            !.expr = QualifyCompound(prefix, select, @)]]
        error     == FirstIdentifierError(columns, compound, 1)
    IN  IF error # "none"
        THEN [raised |-> error, select |-> unaliased]
        ELSE [raised |-> "none",
              select |-> [unaliased EXCEPT !.projection =
                            [n \in 1..Len(compound) |->
                                [compound[n] EXCEPT
                                    !.expr = QualifyIdentifier(columns, tables, @)]]]]

\* the loop over the selects of the tree, from statement n on: stops at the
\* first exception
RECURSIVE QualifySelects(_, _, _, _, _)
QualifySelects(prefix, columns, tables, t, n) ==
    IF n > Len(t) THEN [raised |-> "none", tree |-> t]
    ELSE LET r == QualifySelect(prefix, columns, tables, t[n])
         IN  IF r.raised # "none"
             THEN [raised |-> r.raised, tree |-> [t EXCEPT ![n] = r.select]]
             ELSE QualifySelects(prefix, columns, tables, [t EXCEPT ![n] = r.select], n + 1)

\* the tree as the loops over the tables and over the selects leave it, with
\* the exception the second one raises
Qualify(t, database_, catalog_, schema_) ==
    LET prefix    == Prefix(database_, catalog_, schema_)
        qualified == QualifyTables(prefix, t)
    IN  QualifySelects(prefix, ColumnsDict(qualified), TablesDict(qualified), qualified, 1)

\* a faulty variant of RemoveAlias: keeps the identifier of the expression only
RemoveAliasInner(item) ==
    IF item.tag = "ExprWithAlias"
    THEN [item EXCEPT !.tag = "UnnamedExpr", !.alias = None, !.func = None]
    ELSE item

\* parent["UnnamedExpr"] = expression_with_alias["expr"]; parent.pop("ExprWithAlias")
RemoveAlias(item) ==
    IF item.tag = "ExprWithAlias"
    THEN [item EXCEPT !.tag = "UnnamedExpr", !.alias = None]
    ELSE item

\* the last loop of prepare_tree
RemoveAliases(t) ==
    [n \in 1..Len(t) |->
        [t[n] EXCEPT !.projection =
            [m \in 1..Len(t[n].projection) |-> RemoveAlias(t[n].projection[m])]]]

\* prepare_tree: the exception it raises and the tree it leaves
prepare_tree(t, database_, catalog_, schema_) ==
    LET qualified == Qualify(t, database_, catalog_, schema_)
    IN  IF qualified.raised # "none" THEN qualified
        ELSE [raised |-> "none", tree |-> RemoveAliases(qualified.tree)]

-----------------------------------------------------------------------------
(* matches_permission *)

\* "for left, right in zip(allowed_table, table['name'])" from position n on:
\* TRUE when the loop ends without break (the else branch sets match).  The
\* assignment left["value"] = None is idempotent and the permission is parsed
\* anew for every call of verify_statement, so it is modelled on the value.
RECURSIVE ZipLoopWildcard(_, _, _)
RECURSIVE ZipLoopSameLength(_, _, _)
RECURSIVE ZipLoop(_, _, _)

\* a faulty variant of ZipLoop: a placeholder component is skipped
ZipLoopWildcard(allowed_table, name, n) ==
    IF n > Min(Len(allowed_table), Len(name)) THEN TRUE
    ELSE IF allowed_table[n].value # NULL /\ allowed_table[n] # name[n] THEN FALSE
    ELSE ZipLoopWildcard(allowed_table, name, n + 1)

\* a faulty variant of ZipLoop: names of different lengths never match
ZipLoopSameLength(allowed_table, name, n) ==
    /\ Len(allowed_table) = Len(name)
    /\ \A o \in n..Len(name) :
          (IF allowed_table[o].value = NULL
           THEN [allowed_table[o] EXCEPT !.value = None]
           ELSE allowed_table[o]) = name[o]

ZipLoop(allowed_table, name, n) ==
    IF n > Min(Len(allowed_table), Len(name)) THEN TRUE
    ELSE LET left  == IF allowed_table[n].value = NULL
                      THEN [allowed_table[n] EXCEPT !.value = None]
                      ELSE allowed_table[n]
             right == name[n]
         IN  IF left # right THEN FALSE
             ELSE ZipLoop(allowed_table, name, n + 1)

\* "for allowed_table in allowed_tables" from position a on, with the value
\* of match so far
RECURSIVE AllowedLoop(_, _, _, _)
AllowedLoop(allowed_tables, name, a, match) ==
    IF a > Len(allowed_tables) THEN match
    ELSE AllowedLoop(allowed_tables, name, a + 1,
                     IF ZipLoop(allowed_tables[a], name, 1) THEN TRUE ELSE match)

RECURSIVE TableLoopNoReset(_, _, _)
RECURSIVE TableLoop(_, _, _)

\* a faulty variant of TableLoop: match is not reset for the next table
TableLoopNoReset(tables, allowed_tables, m) ==
    IF m > Len(tables) THEN TRUE
    ELSE IF ~AllowedLoop(allowed_tables, tables[m].name, 1, m > 1) THEN FALSE
    ELSE TableLoopNoReset(tables, allowed_tables, m + 1)

\* "for table in find_nodes_by_key(query, 'Table')" from position m on
TableLoop(tables, allowed_tables, m) ==
    IF m > Len(tables) THEN TRUE
    ELSE IF ~AllowedLoop(allowed_tables, tables[m].name, 1, FALSE) THEN FALSE
    ELSE TableLoop(tables, allowed_tables, m + 1)

\* a faulty variant of matches_permission: a query without a table matches
\* no permission
matches_permission_some_table(query_, permission) ==
    LET allowed_tables == [a \in 1..Len(permission.tables) |-> permission.tables[a].name]
    IN  query_.tables # <<>> /\ TableLoop(query_.tables, allowed_tables, 1)

\* matches_permission(query, permission); the loop over the projections that
\* follows the table check has no body
matches_permission(query_, permission) ==
    LET allowed_tables == [a \in 1..Len(permission.tables) |-> permission.tables[a].name]
    IN  TableLoop(query_.tables, allowed_tables, 1)

-----------------------------------------------------------------------------
(* The inputs of verify_query *)

Table(name, alias) == [name |-> name, alias |-> alias]

Identifier(v) == [tag |-> "Identifier", parts |-> <<Ident(v)>>]

CompoundIdentifier(parts) == [tag |-> "CompoundIdentifier", parts |-> parts]

Value == [tag |-> "Value", parts |-> <<>>]

UnnamedExpr(expr) ==
    [tag |-> "UnnamedExpr", alias |-> None, func |-> None, expr |-> expr]

ExprWithAlias(func, expr, alias) ==
    [tag |-> "ExprWithAlias", alias |-> alias, func |-> func, expr |-> expr]

Select(tables, projection) == [tables |-> tables, projection |-> projection]

\* SELECT s.event_time, SUM(price) AS sum_price FROM sales AS s
SalesQuery ==
    Select(<<Table(Name1("sales"), "s")>>,
           <<UnnamedExpr(CompoundIdentifier(Name2("s", "event_time"))),
             ExprWithAlias("SUM", Identifier("price"), "sum_price")>>)

\* SELECT order_id AS id FROM orders
OrdersQuery ==
    Select(<<Table(Name1("orders"), None)>>,
           <<ExprWithAlias(None, Identifier("order_id"), "id")>>)

\* SELECT discount FROM sales
MissingColumnQuery ==
    Select(<<Table(Name1("sales"), None)>>,
           <<UnnamedExpr(Identifier("discount"))>>)

\* SELECT s.event_time, dev.sales.price AS price FROM sales AS s, dev."sales"
TwoSchemasQuery ==
    Select(<<Table(Name1("sales"), "s"), Table(<<Ident("dev"), Quoted("sales")>>, None)>>,
           <<UnnamedExpr(CompoundIdentifier(Name2("s", "event_time"))),
             ExprWithAlias(None,
                 CompoundIdentifier(<<Ident("dev"), Ident("sales"), Ident("price")>>),
                 "price")>>)

\* SELECT sales.event_time FROM postgres.hive.main.sales
HiveQuery ==
    Select(<<Table(Name4("postgres", "hive", "main", "sales"), None)>>,
           <<UnnamedExpr(CompoundIdentifier(Name2("sales", "event_time")))>>)

\* SELECT 1 AS one
NoTableQuery ==
    Select(<<>>, <<ExprWithAlias(None, Value, "one")>>)

Statements ==
    {SalesQuery, OrdersQuery, MissingColumnQuery, TwoSchemasQuery, HiveQuery, NoTableQuery}

\* the trees parse_sql returns for the submitted query texts
Queries == SeqsUpTo(Statements, MaxStatements) \ {<<>>}

\* a permission statement SELECT * FROM <names>
Permission(names) ==
    Select([a \in 1..Len(names) |-> Table(names[a], None)], <<>>)

\* the permission strings, each as the statements parse_sql splits it in
PermissionStrings ==
    { <<>>,
      <<Permission(<<Name1("postgres")>>)>>,
      <<Permission(<<Name2("postgres", "dev")>>),
        Permission(<<Name2("postgres", NULL)>>)>>,
      <<Permission(<<Name4("postgres", NULL, "main", "sales")>>)>>,
      <<Permission(<<Name4("postgres", NULL, "dev", "sales")>>),
        Permission(<<Name4("postgres", NULL, "main", "sales"),
                     Name4("postgres", NULL, "dev", "sales")>>)>>,
      <<Permission(<<>>),
        Permission(<<Name4(NULL, "hive", "main", "sales")>>)>> }

PermissionLists == SeqsUpTo(PermissionStrings, MaxPermissions)

NoCall ==
    [made |-> FALSE, query |-> Select(<<>>, <<>>), permission |-> Permission(<<>>),
     result |-> FALSE]

NoException == [kind |-> "none", names |-> <<>>]

NoSelect == [projection |-> <<>>, froms |-> <<>>, joins |-> <<>>, where |-> <<>>,
             group_by |-> <<>>]


-----------------------------------------------------------------------------
(* verify_query and verify_statement *)

Init ==
    /\ query \in Queries
    /\ database = "postgres"
    /\ catalog = None
    /\ schema = "main"
    /\ permissions \in PermissionLists
    /\ tree = query
    /\ pc = "prepare"
    /\ si = 1
    /\ pi = 1
    /\ ki = 1
    /\ call = NoCall
    /\ raised = "none"
    /\ result = FALSE
    /\ node = None
    /\ groupbys = <<>>
    /\ filters = <<>>
    /\ database_id = <<>>
    /\ requested_dimensions = {}
    /\ pending = {}
    /\ dimensions = <<>>
    /\ referenced_columns = <<>>
    /\ node_database = <<>>
    /\ node_select = NoSelect
    /\ step = "idle"
    /\ exception = NoException
    /\ called = "none"
    /\ arguments = <<>>
    /\ returned = <<>>

\* a faulty variant of PrepareTree: a failed qualification denies the query
PrepareTreeDeny ==
    /\ pc = "prepare"
    /\ LET prepared == prepare_tree(tree, database, catalog, schema)
       IN  /\ tree' = prepared.tree
           /\ raised' = "none"
           /\ result' = FALSE
           /\ pc' = IF prepared.raised # "none" THEN "done" ELSE "statement"
    /\ UNCHANGED <<query, database, catalog, schema, permissions, si, pi, ki, call>>
    /\ UNCHANGED <<builder_vars, function_vars>>

\* prepare_tree(tree, engine, database, catalog, schema)
PrepareTree ==
    /\ pc = "prepare"
    /\ LET prepared == prepare_tree(tree, database, catalog, schema)
       IN  /\ tree' = prepared.tree
           /\ raised' = prepared.raised
           /\ pc' = IF prepared.raised # "none" THEN "done" ELSE "statement"
    /\ UNCHANGED <<query, database, catalog, schema, permissions, si, pi, ki, call, result>>
    /\ UNCHANGED <<builder_vars, function_vars>>

\* all(verify_statement(statement, permissions) for statement in tree): the
\* next statement, or True when none is left
VerifyQuery ==
    /\ pc = "statement"
    /\ IF si > Len(tree)
       THEN /\ result' = TRUE
            /\ pc' = "done"
            /\ UNCHANGED pi
       ELSE /\ pi' = 1
            /\ pc' = "permission"
            /\ UNCHANGED result
    /\ UNCHANGED <<query, database, catalog, schema, permissions, tree, si, ki, call, raised>>
    /\ UNCHANGED <<builder_vars, function_vars>>

\* a faulty variant of VerifyStatement: one matching permission is enough
VerifyStatementAny ==
    /\ pc = "permission"
    /\ IF pi > Len(permissions) \/ (pi > 1 /\ call.made /\ call.result)
       THEN /\ si' = si + 1
            /\ pc' = "statement"
            /\ UNCHANGED ki
       ELSE /\ ki' = 1
            /\ pc' = "permission_statement"
            /\ UNCHANGED si
    /\ UNCHANGED <<query, database, catalog, schema, permissions, tree, pi, call, raised, result>>
    /\ UNCHANGED <<builder_vars, function_vars>>

\* all(any(...) for permission in permissions): the next permission, or the
\* statement is verified when none is left
VerifyStatement ==
    /\ pc = "permission"
    /\ IF pi > Len(permissions)
       THEN /\ si' = si + 1
            /\ pc' = "statement"
            /\ UNCHANGED ki
       ELSE /\ ki' = 1
            /\ pc' = "permission_statement"
            /\ UNCHANGED si
    /\ UNCHANGED <<query, database, catalog, schema, permissions, tree, pi, call, raised, result>>
    /\ UNCHANGED <<builder_vars, function_vars>>

\* any(matches_permission(query, permission_statement) for permission_statement
\* in parse_sql(permission)): the next permission statement; when none is left
\* any() is False, and so are both all()
MatchesPermission ==
    /\ pc = "permission_statement"
    /\ IF ki > Len(permissions[pi])
       THEN /\ result' = FALSE
            /\ pc' = "done"
            /\ UNCHANGED <<pi, ki, call>>
       ELSE LET matches == matches_permission(tree[si], permissions[pi][ki])
            IN  /\ call' = [made |-> TRUE, query |-> tree[si],
                            permission |-> permissions[pi][ki], result |-> matches]
                /\ IF matches
                   THEN /\ pi' = pi + 1
                        /\ pc' = "permission"
                        /\ UNCHANGED ki
                   ELSE /\ ki' = ki + 1
                        /\ pc' = "permission_statement"
                        /\ UNCHANGED pi
                /\ UNCHANGED result
    /\ UNCHANGED <<query, database, catalog, schema, permissions, tree, si, raised>>
    /\ UNCHANGED <<builder_vars, function_vars>>

Next == PrepareTree \/ VerifyQuery \/ VerifyStatement \/ MatchesPermission

Spec == Init /\ [][Next]_vars

-----------------------------------------------------------------------------
(* The metadata get_query_for_node reads.  A string with a dot is the pair  *)
(* of what stands before its last dot and what stands after it:            *)
(* "parent.ds" is <<"parent", "ds">>; a string without a dot is <<string>>. *)

DEFAULT_DIMENSION_COLUMN == "id"

Column(name, dimension, dimension_column) ==
    [name |-> name, dimension |-> dimension, dimension_column |-> dimension_column]

\* Node.parents, by node name
Parents(name) ==
    CASE name = "child"   -> <<"parent">>
      [] name = "revenue" -> <<"purchases">>
      [] name = "both"    -> <<"bare", "events", "parent">>
      [] OTHER            -> <<>>

\* Node.columns, by node name
Columns(name) ==
    CASE name = "parent"    -> <<Column("ds", "dates", "ds"),
                                 Column("user_id", "users", None),
                                 Column("foo", None, None)>>
      [] name = "users"     -> <<Column("id", None, None), Column("country", None, None)>>
      [] name = "dates"     -> <<Column("ds", None, None), Column("week", None, None)>>
      [] name = "purchases" -> <<Column("amount", None, None)>>
      [] name = "events"    -> <<Column("actor", "users", None),
                                 Column("target", "users", "country")>>
      [] OTHER              -> <<>>

\* the tables of a node: the database of each and the columns it has there
Tables(name) ==
    CASE name = "parent"    -> {[database |-> 1, columns |-> {"ds", "user_id", "foo"}],
                                [database |-> 2, columns |-> {"ds", "user_id", "foo"}]}
      [] name = "users"     -> {[database |-> 1, columns |-> {"id"}],
                                [database |-> 2, columns |-> {"id", "country"}]}
      [] name = "dates"     -> {[database |-> 3, columns |-> {"ds", "week"}]}
      [] name = "purchases" -> {[database |-> 1, columns |-> {"amount"}],
                                [database |-> 3, columns |-> {"amount"}]}
      [] OTHER              -> {}

\* Database.cost, by database id
Cost(id) == CASE id = 1 -> 1 [] id = 2 -> 1 [] OTHER -> 5

NodeNames ==
    {"child", "revenue", "parent", "users", "dates", "purchases", "both", "bare", "events",
     "total"}

\* the names a dimension string can start with
Names == NodeNames \cup {"nosuch"}

\* the projection of the expression of a metric node
Projection(name) ==
    CASE name = "child"   -> <<<<"COUNT(*)">>>>
      [] name = "revenue" -> <<<<"SUM(amount)">>>>
      [] OTHER            -> <<>>

\* get_referenced_columns_from_sql(node.expression, node.parents): the
\* columns of each parent the expression of the node refers to, a dictionary
\* with the empty set as default
get_referenced_columns_from_sql(name) ==
    [n \in Names |-> IF name = "revenue" /\ n = "purchases" THEN {"amount"} ELSE {}]

\* a faulty variant of ColumnDimensions: the columns of the dimension node
\* are left out
ColumnDimensionsOwn(parent, column) == {<<parent, column.name>>}

\* the dimensions one column of a parent gives: parent.column, and
\* dimension.column for every column of the dimension node it is linked to
ColumnDimensions(parent, column) ==
    {<<parent, column.name>>}
        \cup {<<column.dimension, other.name>> :
                other \in IF column.dimension = None THEN {}
                          ELSE Range(Columns(column.dimension))}

\* get_dimensions(node), as the set of its elements
get_dimensions(name) ==
    UNION {UNION {ColumnDimensions(parent, column) : column \in Range(Columns(parent))} :
            parent \in Range(Parents(name))}

\* get_computable_databases(node, columns): the databases with a table of
\* the node that has the columns, and the databases that have, for every
\* parent, a table with the columns of it the node refers to
get_computable_databases(name, columns) ==
    {table.database : table \in {t \in Tables(name) : columns \subseteq t.columns}}
        \cup (IF Parents(name) = <<>> THEN {}
              ELSE {d \in 1..3 :
                      \A parent \in Range(Parents(name)) :
                          \E t \in Tables(parent) :
                              /\ t.database = d
                              /\ get_referenced_columns_from_sql(name)[parent]
                                    \subseteq t.columns})

\* the strings the model sorts, in the order of Python's sorted()
SortOrder ==
    <<<<"dates", "ds">>, <<"dates", "week">>, <<"events", "actor">>, <<"events", "target">>,
      <<"nosuch", "day">>, <<"nosuch", "week">>,
      <<"parent", "ds">>, <<"parent", "foo">>, <<"parent", "user_id">>,
      <<"purchases", "amount">>, <<"users", "country">>, <<"users", "id">>>>

\* a faulty variant of Sorted: descending order
SortedDescending(S) ==
    LET Test(x) == x \in S
        ascending == SelectSeq(SortOrder, Test)
    IN  [n \in 1..Len(ascending) |-> ascending[Len(ascending) + 1 - n]]

\* sorted(S)
Sorted(S) == LET Test(x) == x \in S IN SelectSeq(SortOrder, Test)

\* name, column = string.rsplit(".", 1), for a string with a dot
RSplit(string) == [name |-> string[1], column |-> string[2]]

-----------------------------------------------------------------------------
(* Filters.  A filter string is the sequence of its tokens: a word is a     *)
(* maximal run of the characters [\w./_], written as a string of the form   *)
(* above, and every other character is a symbol.                            *)

Word(text) == [class |-> "word", text |-> text]

Symbol(character) == [class |-> "symbol", text |-> <<character>>]

Symbols(characters) == [n \in 1..Len(characters) |-> Symbol(characters[n])]

\* the alternatives of the second group of FILTER_RE, in the order tried
FILTER_RE_OPERATORS ==
    <<[op |-> "<=", symbols |-> <<"<", "=">>], [op |-> "<", symbols |-> <<"<">>],
      [op |-> ">=", symbols |-> <<">", "=">>], [op |-> ">", symbols |-> <<">">>],
      [op |-> "!=", symbols |-> <<"!", "=">>], [op |-> "=", symbols |-> <<"=">>]>>

COMPARISONS == {">", ">=", "<", "<=", "=", "!="}

\* the alternative a matches after the name: its symbols follow the name and
\* something is left for the third group (.+)
OperatorMatches(filter_, a) ==
    LET symbols == Symbols(FILTER_RE_OPERATORS[a].symbols)
    IN  /\ Len(filter_) > 1 + Len(symbols)
        /\ SubSeq(filter_, 2, 1 + Len(symbols)) = symbols

\* FILTER_RE.match(filter_): the first group is the word the string starts
\* with, the second one the first alternative that matches
FILTER_RE_match(filter_) ==
    IF /\ Len(filter_) > 0
       /\ filter_[1].class = "word"
       /\ \E a \in 1..Len(FILTER_RE_OPERATORS) : OperatorMatches(filter_, a)
    THEN LET a == CHOOSE a \in 1..Len(FILTER_RE_OPERATORS) :
                    /\ OperatorMatches(filter_, a)
                    /\ \A b \in 1..(a - 1) : ~OperatorMatches(filter_, b)
         IN  [matched |-> TRUE,
              name    |-> filter_[1].text,
              op      |-> FILTER_RE_OPERATORS[a].op,
              value   |-> SubSeq(filter_, 2 + Len(FILTER_RE_OPERATORS[a].symbols),
                                 Len(filter_))]
    ELSE [matched |-> FALSE, name |-> <<>>, op |-> None, value |-> <<>>]

Digits == {"0", "1", "2", "5"}

\* whether ast.literal_eval(value) returns: a number, a quoted string or one
\* of the names True, False and None
LiteralEvalReturns(value) ==
    \/ /\ Len(value) = 1
       /\ value[1].class = "word"
       /\ \/ Range(value[1].text) \subseteq Digits
          \/ value[1].text \in {<<"True">>, <<"False">>, <<"None">>}
    \/ /\ Len(value) = 3
       /\ value[1] = Symbol("'")
       /\ value[2].class = "word"
       /\ value[3] = Symbol("'")

\* get_filter(columns, filter_): the exception it raises, or the comparison
\* it returns
get_filter(columns, filter_) ==
    LET match == FILTER_RE_match(filter_)
    IN  IF ~match.matched
        THEN [exception |-> "Invalid filter", name |-> <<>>, op |-> None, value |-> <<>>]
        ELSE IF match.name \notin columns
        THEN [exception |-> "Invalid column name", name |-> match.name,
              op |-> None, value |-> <<>>]
        ELSE IF match.op \notin COMPARISONS
        THEN [exception |-> "Invalid operation", name |-> match.name,
              op |-> match.op, value |-> <<>>]
        ELSE IF ~LiteralEvalReturns(match.value)
        THEN [exception |-> "Invalid value", name |-> match.name,
              op |-> match.op, value |-> match.value]
        ELSE [exception |-> "none", name |-> match.name,
              op |-> match.op, value |-> match.value]

\* get_dimensions_from_filters(filters): the exception it raises, or the set
\* it returns
get_dimensions_from_filters(filters_) ==
    IF \E n \in 1..Len(filters_) : ~FILTER_RE_match(filters_[n]).matched
    THEN [exception |-> "Invalid filter", dimensions |-> {}]
    ELSE [exception |-> "none",
          dimensions |-> {FILTER_RE_match(filters_[n]).name : n \in 1..Len(filters_)}]

-----------------------------------------------------------------------------
(* get_database_for_nodes and find_on_clause *)

DJ_DATABASE_ID == 0

\* the ids of the rows of the table of databases
Databases == {DJ_DATABASE_ID, 1, 2, 3}

\* a faulty variant of get_database_for_nodes: the database asked for is
\* ignored
get_database_for_nodes_cheapest(nodes, node_columns, database_id_) ==
    LET databases ==
            {d \in Databases :
                \A n \in 1..Len(nodes) :
                    d \in get_computable_databases(nodes[n], node_columns[nodes[n]])}
    IN  IF databases = {}
        THEN [exception |-> "No valid database was found", returns |-> {}]
        ELSE [exception |-> "none",
              returns |-> {d \in databases : \A e \in databases : Cost(d) <= Cost(e)}]

\* get_database_for_nodes(session, nodes, node_columns, database_id): the
\* exception it raises, or the databases it can return.  sorted() keeps
\* databases of equal cost in the order the set yields them, which is any
\* order, so [0] is any database of the least cost.
get_database_for_nodes(nodes, node_columns, database_id_) ==
    LET databases ==
            IF nodes # <<>>
            THEN {d \in Databases :
                    \A n \in 1..Len(nodes) :
                        d \in get_computable_databases(nodes[n], node_columns[nodes[n]])}
            ELSE {d \in Databases : d # DJ_DATABASE_ID}
    IN  IF databases = {}
        THEN [exception |-> "No valid database was found", returns |-> {}]
        ELSE IF database_id_ # <<>>
        THEN IF database_id_[1] \in databases
             THEN [exception |-> "none", returns |-> {database_id_[1]}]
             ELSE [exception |-> "Database ID is not valid", returns |-> {}]
        ELSE [exception |-> "none",
              returns |-> {d \in databases : \A e \in databases : Cost(d) <= Cost(e)}]

First(S) == CHOOSE n \in S : \A m \in S : n <= m

\* a faulty variant of find_on_clause: the last linked column is taken
find_on_clause_last(name, dimension) ==
    LET parents == Parents(name)
        Linked(p) == {c \in 1..Len(Columns(parents[p])) :
                        Columns(parents[p])[c].dimension = dimension}
        linking == {p \in 1..Len(parents) : Linked(p) # {}}
        Last(S) == CHOOSE n \in S : \A m \in S : m <= n
    IN  IF linking = {}
        THEN [exception |-> "has no columns with dimension", node |-> name,
              dimension |-> dimension, left |-> <<>>, right |-> <<>>]
        ELSE LET parent == parents[Last(linking)]
                 column == Columns(parent)[Last(Linked(Last(linking)))]
                 dimension_column == IF column.dimension_column = None
                                     THEN DEFAULT_DIMENSION_COLUMN
                                     ELSE column.dimension_column
             IN  [exception |-> "none", node |-> name, dimension |-> dimension,
                  left |-> <<parent, column.name>>,
                  right |-> <<dimension, dimension_column>>]

\* find_on_clause(node, source, dimension, subquery): the exception it
\* raises, with the node and the dimension it names, or the two columns of
\* the equality it returns
find_on_clause(name, dimension) ==
    LET parents == Parents(name)
        Linked(p) == {c \in 1..Len(Columns(parents[p])) :
                        Columns(parents[p])[c].dimension = dimension}
        linking == {p \in 1..Len(parents) : Linked(p) # {}}
    IN  IF linking = {}
        THEN [exception |-> "has no columns with dimension", node |-> name,
              dimension |-> dimension, left |-> <<>>, right |-> <<>>]
        ELSE LET parent == parents[First(linking)]
                 column == Columns(parent)[First(Linked(First(linking)))]
                 dimension_column == IF column.dimension_column = None
                                     THEN DEFAULT_DIMENSION_COLUMN
                                     ELSE column.dimension_column
             IN  [exception |-> "none", node |-> name, dimension |-> dimension,
                  left |-> <<parent, column.name>>,
                  right |-> <<dimension, dimension_column>>]

\* the columns of the table of a node in a database
TableColumns(name, d) == UNION {t.columns : t \in {t \in Tables(name) : t.database = d}}

\* the keys of the dictionary columns: table.column for the columns of the
\* base select of the node, which reads its parents, and of the subqueries
\* joined to it, each with the name of its dimension as alias
ColumnKeys(name, d, joined) ==
    UNION {{<<table, column>> : column \in TableColumns(table, d)} :
            table \in Range(Parents(name)) \cup Range(joined)}

-----------------------------------------------------------------------------
(* get_query_for_node *)

MetricNodes == {"child", "revenue"}

GroupbyStrings ==
    {<<"parent", "ds">>, <<"users", "country">>, <<"users", "id">>, <<"dates", "week">>,
     <<"nosuch", "week">>}

\* parent.user_id>1, users.country='us', parent.ds=abc, nosuch.day<=1 and
\* parent.ds~1
FilterStrings ==
    {<<Word(<<"parent", "user_id">>), Symbol(">"), Word(<<"1">>)>>,
     <<Word(<<"users", "country">>), Symbol("="), Symbol("'"), Word(<<"us">>), Symbol("'")>>,
     <<Word(<<"parent", "ds">>), Symbol("="), Word(<<"abc">>)>>,
     <<Word(<<"nosuch", "day">>), Symbol("<"), Symbol("="), Word(<<"1">>)>>,
     <<Word(<<"parent", "ds">>), Symbol("~"), Word(<<"1">>)>>}

DatabaseIds == {<<>>, <<1>>, <<3>>}

BuildInit ==
    /\ node \in MetricNodes
    /\ groupbys \in SeqsUpTo(GroupbyStrings, MaxGroupbys)
    /\ filters \in SeqsUpTo(FilterStrings, MaxFilters)
    /\ database_id \in DatabaseIds
    /\ requested_dimensions = {}
    /\ pending = {}
    /\ dimensions = <<>>
    /\ referenced_columns = [n \in Names |-> {}]
    /\ node_database = <<>>
    /\ node_select = NoSelect
    /\ step = "check"
    /\ exception = NoException
    /\ query = <<>>
    /\ database = "postgres"
    /\ catalog = None
    /\ schema = "main"
    /\ permissions = <<>>
    /\ tree = <<>>
    /\ pc = "idle"
    /\ si = 1
    /\ pi = 1
    /\ ki = 1
    /\ call = NoCall
    /\ raised = "none"
    /\ result = FALSE
    /\ called = "none"
    /\ arguments = <<>>
    /\ returned = <<>>

\* get_query_for_node raises
Raise(kind, names) ==
    /\ step' = "failed"
    /\ exception' = [kind |-> kind, names |-> names]

\* a faulty variant of CheckDimensions: only the group-bys are checked
CheckDimensionsGroupbys ==
    /\ step = "check"
    /\ LET from_filters == get_dimensions_from_filters(filters)
           requested == Range(groupbys) \cup from_filters.dimensions
           valid_dimensions == get_dimensions(node)
       IN  IF from_filters.exception # "none"
           THEN /\ Raise(from_filters.exception, <<>>)
                /\ UNCHANGED <<requested_dimensions, pending, referenced_columns>>
           ELSE IF ~(Range(groupbys) \subseteq valid_dimensions)
           THEN LET invalid == Sorted(requested \ valid_dimensions)
                IN  /\ Raise(IF Len(invalid) > 1 THEN "Invalid dimensions"
                             ELSE "Invalid dimension", invalid)
                    /\ requested_dimensions' = requested
                    /\ UNCHANGED <<pending, referenced_columns>>
           ELSE /\ requested_dimensions' = requested
                /\ pending' = requested
                /\ referenced_columns' = get_referenced_columns_from_sql(node)
                /\ step' = "dimensions"
                /\ UNCHANGED exception
    /\ UNCHANGED <<node, groupbys, filters, database_id, dimensions, node_database,
                   node_select>>
    /\ UNCHANGED <<verifier_vars, function_vars>>

\* get_query_for_node up to the loop over the requested dimensions: they are
\* checked against the valid ones and the referenced columns are read
CheckDimensions ==
    /\ step = "check"
    /\ LET from_filters == get_dimensions_from_filters(filters)
           requested == Range(groupbys) \cup from_filters.dimensions
           valid_dimensions == get_dimensions(node)
       IN  IF from_filters.exception # "none"
           THEN /\ Raise(from_filters.exception, <<>>)
                /\ UNCHANGED <<requested_dimensions, pending, referenced_columns>>
           ELSE IF ~(requested \subseteq valid_dimensions)
           THEN LET invalid == Sorted(requested \ valid_dimensions)
                IN  /\ Raise(IF Len(invalid) > 1 THEN "Invalid dimensions"
                             ELSE "Invalid dimension", invalid)
                    /\ requested_dimensions' = requested
                    /\ UNCHANGED <<pending, referenced_columns>>
           ELSE /\ requested_dimensions' = requested
                /\ pending' = requested
                /\ referenced_columns' = get_referenced_columns_from_sql(node)
                /\ step' = "dimensions"
                /\ UNCHANGED exception
    /\ UNCHANGED <<node, groupbys, filters, database_id, dimensions, node_database,
                   node_select>>
    /\ UNCHANGED <<verifier_vars, function_vars>>

\* one iteration of the loop over the set requested_dimensions, which
\* yields its elements in any order
CollectDimension ==
    /\ step = "dimensions"
    /\ \E dimension \in pending :
        LET split == RSplit(dimension)
        IN  /\ pending' = pending \ {dimension}
            /\ IF /\ split.name \notin Range(Parents(node))
                  /\ split.name \notin Range(dimensions)
               THEN /\ dimensions' = Append(dimensions, split.name)
                    /\ referenced_columns' =
                         [referenced_columns EXCEPT ![split.name] = @ \cup {split.column}]
               ELSE UNCHANGED <<dimensions, referenced_columns>>
    /\ UNCHANGED <<node, groupbys, filters, database_id, requested_dimensions,
                   node_database, node_select, step, exception>>
    /\ UNCHANGED <<verifier_vars, function_vars>>

\* after the loop: the database is found for the node and the dimensions
FindDatabase ==
    /\ step = "dimensions"
    /\ pending = {}
    /\ LET found == get_database_for_nodes(<<node>> \o dimensions, referenced_columns,
                                           database_id)
       IN  IF found.exception # "none"
           THEN /\ Raise(found.exception, <<>>)
                /\ UNCHANGED node_database
           ELSE /\ \E d \in found.returns : node_database' = <<d>>
                /\ step' = "build"
                /\ UNCHANGED exception
    /\ UNCHANGED <<node, groupbys, filters, database_id, requested_dimensions, pending,
                   dimensions, referenced_columns, node_select>>
    /\ UNCHANGED <<verifier_vars, function_vars>>

\* the rest of get_query_for_node: the select of the node, the joins with
\* the dimensions, the filters, the group-by and the projection
BuildQuery ==
    /\ step = "build"
    /\ LET joins == [n \in 1..Len(dimensions) |-> find_on_clause(node, dimensions[n])]
           columns == ColumnKeys(node, node_database[1], dimensions)
           where == [n \in 1..Len(filters) |-> get_filter(columns, filters[n])]
           no_join == {n \in 1..Len(joins) : joins[n].exception # "none"}
           no_filter == {n \in 1..Len(where) : where[n].exception # "none"}
       IN  IF no_join # {}
           THEN /\ Raise(joins[First(no_join)].exception, <<>>)
                /\ UNCHANGED node_select
           ELSE IF no_filter # {}
           THEN /\ Raise(where[First(no_filter)].exception, <<>>)
                /\ UNCHANGED node_select
           ELSE IF ~(Range(groupbys) \subseteq columns)
           THEN /\ Raise("KeyError", <<>>)
                /\ UNCHANGED node_select
           ELSE /\ node_select' = [projection |-> Projection(node) \o groupbys,
                                   froms      |-> Parents(node),
                                   joins      |-> joins,
                                   where      |-> where,
                                   group_by   |-> groupbys]
                /\ step' = "done"
                /\ UNCHANGED exception
    /\ UNCHANGED <<node, groupbys, filters, database_id, requested_dimensions, pending,
                   dimensions, referenced_columns, node_database>>
    /\ UNCHANGED <<verifier_vars, function_vars>>

BuildNext == CheckDimensions \/ CollectDimension \/ FindDatabase \/ BuildQuery

BuildSpec == BuildInit /\ [][BuildNext]_vars

-----------------------------------------------------------------------------
(* Properties of the verifier *)

Returned == pc = "done" /\ raised = "none"

Prepared == pc # "prepare" /\ raised = "none"

\* a table of the model's 4-part world
SingleTableCall ==
    /\ call.made
    /\ Len(call.query.tables) = 1
    /\ Len(call.permission.tables) = 1
    /\ Len(call.query.tables[1].name) = 4

\* a permission component as it is compared: the placeholder stands for an
\* unset component
Placeholder(part) == IF part.value = NULL THEN [part EXCEPT !.value = None] ELSE part

\* C1: verify_query returns true if and only if every statement of the
\* qualified query matches, for every permission of the list, at least one
\* statement of that permission.
C1_VerifyQueryAllAny ==
    Returned =>
        (result <=>
            \A s \in 1..Len(tree) : \A p \in 1..Len(permissions) :
                \E k \in 1..Len(permissions[p]) :
                    matches_permission(tree[s], permissions[p][k]))

C1_Witness ==
    /\ Returned
    /\ result
    /\ Len(tree) = 2
    /\ \A s \in 1..2 : Len(tree[s].tables) > 0
    /\ Len(permissions) = 2
    /\ permissions[1] # permissions[2]
    /\ \E p \in 1..2 : Len(permissions[p]) = 2

\* C2: matches_permission is true exactly when every table of the query
\* statement matches at least one allowed table of the permission statement;
\* sales qualified with (postgres, unset, main) matches
\* postgres.null.main.sales and does not match postgres.null.dev.sales.
C2_EveryTableSomeAllowed ==
    call.made =>
        /\ call.result <=>
              \A m \in 1..Len(call.query.tables) :
                  \E a \in 1..Len(call.permission.tables) :
                      ZipLoop(call.permission.tables[a].name, call.query.tables[m].name, 1)
        /\ (/\ Len(call.query.tables) = 1
            /\ call.query.tables[1].name =
                  <<Ident("postgres"), Ident(None), Ident("main"), Ident("sales")>>)
           => /\ call.permission = Permission(<<Name4("postgres", NULL, "main", "sales")>>)
                    => call.result
              /\ call.permission = Permission(<<Name4("postgres", NULL, "dev", "sales")>>)
                    => ~call.result

C2_Witness ==
    /\ call.made
    /\ ~call.result
    /\ Len(call.query.tables) = 2
    /\ \E a \in 1..Len(call.permission.tables) :
          ZipLoop(call.permission.tables[a].name, call.query.tables[1].name, 1)

C4_ShortPermissionIsPrefix ==
    (SingleTableCall /\ Len(call.permission.tables[1].name) < 4) =>
        (call.result <=>
            \A n \in 1..Len(call.permission.tables[1].name) :
                Placeholder(call.permission.tables[1].name[n]) = call.query.tables[1].name[n])

C4_Witness ==
    /\ SingleTableCall
    /\ call.permission.tables[1].name = Name1("postgres")
    /\ call.query.tables[1].name[4].value = "sales"
    /\ call.result

\* the bare identifiers of statement n that the qualification cannot resolve
\* to one table
UnresolvedIdentifiers(n) ==
    LET columns == ColumnsDict(QualifyTables(Prefix(database, catalog, schema), query))
    IN  {m \in 1..Len(query[n].projection) :
            /\ query[n].projection[m].expr.tag = "Identifier"
            /\ Cardinality(Candidates(columns, query[n].projection[m].expr.parts[1])) # 1}

\* C5: when the qualification of some statement of the query fails,
\* verify_query raises: no permission is ever checked and no boolean is
\* returned.
C5_QualificationFailureRaises ==
    (\E n \in 1..Len(query) : UnresolvedIdentifiers(n) # {}) =>
        /\ ~call.made
        /\ pc \in {"prepare", "done"}
        /\ pc = "done" => raised # "none"

\* the second statement fails, the first one alone is denied by the first permission
C5_Witness ==
    /\ pc = "done"
    /\ raised # "none"
    /\ Len(query) = 2
    /\ UnresolvedIdentifiers(1) = {}
    /\ UnresolvedIdentifiers(2) # {}
    /\ Len(permissions) > 0
    /\ \A k \in 1..Len(permissions[1]) :
          ~matches_permission(
              prepare_tree(<<query[1]>>, database, catalog, schema).tree[1],
              permissions[1][k])

\* C6: after prepare_tree a table reference written with k parts,
\* 1 <= k <= 4, has four parts: the first 4 - k components of
\* (database, catalog, schema) followed by its k parts.
C6_TablesHaveFourParts ==
    Prepared =>
        \A n \in 1..Len(query) : \A m \in 1..Len(query[n].tables) :
            Len(query[n].tables[m].name) \in 1..4 =>
                /\ Len(tree[n].tables[m].name) = 4
                /\ tree[n].tables[m].name =
                      SubSeq(<<Ident(database), Ident(catalog), Ident(schema)>>,
                             1, 4 - Len(query[n].tables[m].name))
                          \o query[n].tables[m].name

C6_Witness ==
    /\ Prepared
    /\ \E n \in 1..Len(query) :
          /\ \E m \in 1..Len(query[n].tables) : Len(query[n].tables[m].name) = 2
          /\ \E m \in 1..Len(query[n].tables) : Len(query[n].tables[m].name) = 1
    /\ \E n \in 1..Len(query) : \E m \in 1..Len(query[n].tables) :
          /\ Len(query[n].tables[m].name) = 4
          /\ tree[n].tables[m].name = query[n].tables[m].name

\* the qualified tables in scope of statement n that have a column
InScope(n, column) ==
    {m \in 1..Len(query[n].tables) :
        column \in Range(get_column_names(
            QualifyTable(Prefix(database, catalog, schema), query[n].tables[m])))}

\* the statements with a bare identifier that none, or more than one, of
\* the tables in scope has
ScopeErrors(n) ==
    {m \in 1..Len(query[n].projection) :
        /\ query[n].projection[m].expr.tag = "Identifier"
        /\ Cardinality(InScope(n, query[n].projection[m].expr.parts[1].value)) # 1}

\* C7: a bare identifier is resolved against the tables in scope of its own
\* statement only: prepare_tree fails exactly when some identifier has no, or
\* more than one, table in scope with a column of its name, and it rewrites
\* every other identifier to the chain of its table followed by the column.
C7_ResolvedInOwnStatement ==
    pc # "prepare" =>
        /\ raised # "none" <=> \E n \in 1..Len(query) : ScopeErrors(n) # {}
        /\ raised = "none" =>
              \A n \in 1..Len(query) : \A m \in 1..Len(query[n].projection) :
                  query[n].projection[m].expr.tag = "Identifier" =>
                      \E o \in InScope(n, query[n].projection[m].expr.parts[1].value) :
                          tree[n].projection[m].expr =
                              CompoundIdentifier(tree[n].tables[o].name
                                  \o query[n].projection[m].expr.parts)

\* C8: after prepare_tree no table has an alias; a compound identifier whose
\* table part is an alias of its select is the chain of the aliased table
\* followed by the column, and any other compound identifier (of at most five
\* parts) is left-padded with (database, catalog, schema) to five parts.
C8_AliasesResolved ==
    Prepared =>
        \A n \in 1..Len(query) :
            /\ \A m \in 1..Len(tree[n].tables) : tree[n].tables[m].alias = None
            /\ \A m \in 1..Len(query[n].projection) :
                  LET cid == query[n].projection[m].expr.parts
                      new == tree[n].projection[m].expr
                  IN  (query[n].projection[m].expr.tag = "CompoundIdentifier") =>
                        /\ new.tag = "CompoundIdentifier"
                        /\ IF \E o \in 1..Len(query[n].tables) :
                                  query[n].tables[o].alias = cid[Len(cid) - 1].value
                           THEN \E o \in 1..Len(query[n].tables) :
                                  /\ query[n].tables[o].alias = cid[Len(cid) - 1].value
                                  /\ new.parts = tree[n].tables[o].name \o <<cid[Len(cid)]>>
                                  /\ Len(query[n].tables[o].name) <= 4 => Len(new.parts) = 5
                           ELSE Len(cid) <= 5 =>
                                  /\ Len(new.parts) = 5
                                  /\ new.parts =
                                        SubSeq(<<Ident(database), Ident(catalog), Ident(schema)>>,
                                               1, 5 - Len(cid)) \o cid

C8_Witness ==
    /\ Prepared
    /\ \E n \in 1..Len(query) :
          /\ \E m \in 1..Len(query[n].projection) :
                /\ query[n].projection[m].expr.tag = "CompoundIdentifier"
                /\ \E o \in 1..Len(query[n].tables) :
                      query[n].tables[o].alias = query[n].projection[m].expr.parts[1].value
          /\ \E m \in 1..Len(query[n].projection) :
                /\ query[n].projection[m].expr.tag = "CompoundIdentifier"
                /\ Len(query[n].projection[m].expr.parts) = 3

\* the tree as the loops over the tables and the selects leave it
BeforeRemoveAliases == Qualify(query, database, catalog, schema).tree

\* C9: when prepare_tree returns, the tree has no ExprWithAlias: each one is
\* replaced in its place by an UnnamedExpr of the expression it wrapped, and
\* nothing else changes.
C9_NoExprWithAlias ==
    [][(pc = "prepare" /\ raised' = "none") =>
        LET before == BeforeRemoveAliases
        IN  \A n \in 1..Len(query) :
                /\ tree'[n].tables = before[n].tables
                /\ Len(tree'[n].projection) = Len(query[n].projection)
                /\ \A m \in 1..Len(query[n].projection) :
                      /\ tree'[n].projection[m].tag # "ExprWithAlias"
                      /\ tree'[n].projection[m] =
                            IF before[n].projection[m].tag = "ExprWithAlias"
                            THEN [tag   |-> "UnnamedExpr",
                                  alias |-> None,
                                  func  |-> before[n].projection[m].func,
                                  expr  |-> before[n].projection[m].expr]
                            ELSE before[n].projection[m]]_vars

C9_Witness ==
    /\ Prepared
    /\ \E n \in 1..Len(query) : \E m \in 1..Len(query[n].projection) :
          /\ query[n].projection[m].tag = "ExprWithAlias"
          /\ query[n].projection[m].func = "SUM"
          /\ tree[n].projection[m].expr.tag = "CompoundIdentifier"
    /\ \E n \in 1..Len(query) : \E m \in 1..Len(query[n].projection) :
          query[n].projection[m].tag = "UnnamedExpr"


\* a statement with the quote style of every component of its tables unset
Unquoted(statement) ==
    [statement EXCEPT
        !.tables = [t \in 1..Len(statement.tables) |->
                       [statement.tables[t] EXCEPT
                           !.name = [n \in 1..Len(statement.tables[t].name) |->
                                        [statement.tables[t].name[n] EXCEPT
                                            !.quote_style = None]]]]]

\* C26: the comparison of the components in matches_permission depends on
\* the values only: the call returns what it returns for the same statements
\* with every quote style unset
C26_ValuesOnly ==
    call.made =>
        call.result = matches_permission(Unquoted(call.query), Unquoted(call.permission))

\* C28: with an empty list of permissions verify_query returns true for
\* every query that can be qualified; a statement of the query without a
\* table matches every permission statement; and a permission string without
\* a statement is matched by no statement, so that verify_query returns
\* false
C28_EmptyCases ==
    /\ (Returned /\ permissions = <<>>) => result
    /\ (call.made /\ call.query.tables = <<>>) => call.result
    /\ (Returned /\ \E p \in 1..Len(permissions) : permissions[p] = <<>>) => ~result

\* a statement without a table has matched the statement of a first
\* permission, and verify_query has returned false for a second permission
\* that has no statement
C28_Witness ==
    /\ Returned
    /\ ~result
    /\ call.made
    /\ call.query.tables = <<>>
    /\ call.result
    /\ Len(permissions) = 2
    /\ permissions[2] = <<>>

-----------------------------------------------------------------------------
(* Properties of get_query_for_node *)

Succeeded == step = "done"

Failed == step = "failed"

\* the requested dimension set is defined: every filter has a dimension name
RequestedDefined == get_dimensions_from_filters(filters).exception = "none"

\* the group-bys together with the dimension names of the filters
Requested == Range(groupbys) \cup get_dimensions_from_filters(filters).dimensions

\* C10, as stated: once get_query_for_node has returned or raised for a
\* request whose dimension set is defined, it has succeeded if and only if
\* the requested dimensions are a subset of get_dimensions(node).
C10_SucceedsIffValid ==
    ((Succeeded \/ Failed) /\ RequestedDefined)
        => (Succeeded <=> Requested \subseteq get_dimensions(node))

\* C10, corrected: get_query_for_node succeeds only if the requested
\* dimensions are a subset of get_dimensions(node), and when they are not it
\* raises the invalid-dimension error; a request with valid dimensions can
\* still fail.
C10_SucceedsOnlyIfValid ==
    ((Succeeded \/ Failed) /\ RequestedDefined)
        => /\ Succeeded => Requested \subseteq get_dimensions(node)
           /\ ~(Requested \subseteq get_dimensions(node))
                => /\ Failed
                   /\ exception.kind \in {"Invalid dimension", "Invalid dimensions"}

\* a request with a group-by and a filter, all of them valid dimensions, has
\* succeeded
C10_Witness ==
    /\ Succeeded
    /\ groupbys # <<>>
    /\ filters # <<>>
    /\ Requested \subseteq get_dimensions(node)


\* the place of a string in the order of Python's sorted()
Position(string) == CHOOSE n \in 1..Len(SortOrder) : SortOrder[n] = string

\* the dimensions asked for: the group-bys and the names of the filters that
\* have one
RequestedNames ==
    Range(groupbys)
        \cup {FILTER_RE_match(filters[n]).name :
                n \in {m \in 1..Len(filters) : FILTER_RE_match(filters[m]).matched}}

InvalidDimensionRaised ==
    /\ Failed
    /\ exception.kind \in {"Invalid dimension", "Invalid dimensions"}

\* C11, as stated: whenever a group-by or the name of a filter is not a
\* valid dimension of the node, get_query_for_node ends with the
\* invalid-dimension error.
C11_InvalidDimensionReported ==
    (step # "check" /\ ~(RequestedNames \subseteq get_dimensions(node)))
        => InvalidDimensionRaised

\* C11, corrected: when every filter has the shape name<op>value and some
\* requested dimension is not valid, get_query_for_node ends with the
\* invalid-dimension error; its message lists exactly the requested
\* dimensions that are not valid, each once and in ascending order, in the
\* plural form iff there are several; and no database has been found and no
\* statement built.
C11_InvalidDimensionsListed ==
    (step # "check" /\ RequestedDefined /\ ~(Requested \subseteq get_dimensions(node)))
        => /\ InvalidDimensionRaised
           /\ Range(exception.names) = Requested \ get_dimensions(node)
           /\ \A n, m \in 1..Len(exception.names) :
                n < m => Position(exception.names[n]) < Position(exception.names[m])
           /\ exception.kind = "Invalid dimensions" <=> Len(exception.names) > 1
           /\ node_database = <<>>
           /\ dimensions = <<>>
           /\ node_select = NoSelect

\* two invalid dimensions, one from the group-bys and one from a filter,
\* have been reported, and a valid one was requested with them
C11_Witness ==
    /\ InvalidDimensionRaised
    /\ Len(exception.names) = 2
    /\ Len(groupbys) = 2
    /\ Range(groupbys) \cap get_dimensions(node) # {}
    /\ filters # <<>>


-----------------------------------------------------------------------------
(* Properties of get_database_for_nodes *)

\* the nodes get_query_for_node passes to get_database_for_nodes
QueryNodes == <<node>> \o dimensions

\* the intersection of the computable databases of the nodes
Computable ==
    {d \in Databases :
        \A n \in Range(QueryNodes) : d \in get_computable_databases(n, referenced_columns[n])}

\* get_query_for_node is about to call get_database_for_nodes
FindingDatabase == step = "dimensions" /\ pending = {}

\* C12: the call of get_database_for_nodes with the node and its dimensions
\* raises the no-valid-database error when the intersection of their
\* computable databases is empty; otherwise, with a database_id, it returns
\* the member with that id or raises the database-id-not-valid error when
\* there is none, and without one it returns a member of the intersection.
C12_DatabaseInIntersection ==
    [][FindingDatabase =>
        /\ Computable = {} =>
            /\ step' = "failed"
            /\ exception'.kind = "No valid database was found"
        /\ (Computable # {} /\ database_id # <<>> /\ database_id[1] \in Computable) =>
            /\ step' = "build"
            /\ node_database' = database_id
        /\ (Computable # {} /\ database_id # <<>> /\ database_id[1] \notin Computable) =>
            /\ step' = "failed"
            /\ exception'.kind = "Database ID is not valid"
        /\ (Computable # {} /\ database_id = <<>>) =>
            /\ step' = "build"
            /\ node_database'[1] \in Computable]_vars

\* the database asked for has been returned although a cheaper one can
\* compute the nodes
C12_Witness ==
    /\ step = "build"
    /\ database_id # <<>>
    /\ node_database = database_id
    /\ \E d \in Computable : Cost(d) < Cost(node_database[1])


\* the databases of the least cost among those that can compute the nodes
Cheapest == {d \in Computable : \A e \in Computable : Cost(d) <= Cost(e)}

\* C13, as stated: without a database_id, get_database_for_nodes returns the
\* database of the least cost in the intersection and, among databases of
\* equal least cost, the first one in insertion order (the order of the
\* ids), so that every call with the same arguments returns the same one.
C13_FirstOfCheapest ==
    (step = "build" /\ database_id = <<>>) => node_database[1] = First(Cheapest)


-----------------------------------------------------------------------------
(* get_filter called on its own *)

\* verify_query is not running
VerifierIdle ==
    /\ query = <<>>
    /\ database = "postgres"
    /\ catalog = None
    /\ schema = "main"
    /\ permissions = <<>>
    /\ tree = <<>>
    /\ pc = "idle"
    /\ si = 1
    /\ pi = 1
    /\ ki = 1
    /\ call = NoCall
    /\ raised = "none"
    /\ result = FALSE

\* get_query_for_node is not running
BuilderIdle ==
    /\ node = None
    /\ groupbys = <<>>
    /\ filters = <<>>
    /\ database_id = <<>>
    /\ requested_dimensions = {}
    /\ pending = {}
    /\ dimensions = <<>>
    /\ referenced_columns = <<>>
    /\ node_database = <<>>
    /\ node_select = NoSelect
    /\ step = "idle"
    /\ exception = NoException

\* the keys of the dictionary columns
FilterColumns == {<<"parent", "ds">>, <<"parent", "user_id">>}

FilterNames == {<<"parent", "ds">>, <<"nosuch", "day">>}

\* the characters written between the name and the value
FilterOperators ==
    {<<"<">>, <<"<", "=">>, <<">">>, <<">", "=">>, <<"=">>, <<"!", "=">>,
     <<"~">>, <<"!">>, <<"=", "=">>, <<"<", ">">>}

\* nothing, 1, 1.5, 'us', abc, true, false, null, True, False and None
FilterValues ==
    {<<>>, <<Word(<<"1">>)>>, <<Word(<<"1", "5">>)>>,
     <<Symbol("'"), Word(<<"us">>), Symbol("'")>>, <<Word(<<"abc">>)>>,
     <<Word(<<"true">>)>>, <<Word(<<"false">>)>>, <<Word(<<"null">>)>>,
     <<Word(<<"True">>)>>, <<Word(<<"False">>)>>, <<Word(<<"None">>)>>}

\* the filter string written as name, operator and value
FilterString(name, op, value) == <<Word(name)>> \o Symbols(op) \o value

FilterInit ==
    /\ called = "none"
    /\ arguments \in [columns : {FilterColumns}, name : FilterNames,
                      op : FilterOperators, value : FilterValues]
    /\ returned = <<>>
    /\ VerifierIdle
    /\ BuilderIdle

\* a faulty variant of GetFilter: the value is evaluated before the name is
\* looked up
GetFilterValueFirst ==
    /\ called = "none"
    /\ called' = "get_filter"
    /\ LET filter_ == FilterString(arguments.name, arguments.op, arguments.value)
           match == FILTER_RE_match(filter_)
           checked == get_filter(arguments.columns, filter_)
       IN  returned' = IF match.matched /\ ~LiteralEvalReturns(match.value)
                       THEN [checked EXCEPT !.exception = "Invalid value"]
                       ELSE checked
    /\ UNCHANGED <<arguments, verifier_vars, builder_vars>>

\* get_filter(columns, filter_) is called
GetFilter ==
    /\ called = "none"
    /\ called' = "get_filter"
    /\ returned' = get_filter(arguments.columns,
                              FilterString(arguments.name, arguments.op, arguments.value))
    /\ UNCHANGED <<arguments, verifier_vars, builder_vars>>

FilterNext == GetFilter

FilterSpec == FilterInit /\ [][FilterNext]_vars

-----------------------------------------------------------------------------
(* Properties of get_filter *)

FilterReturned == called = "get_filter"

\* the operators of COMPARISONS, as written
Written ==
    {FILTER_RE_OPERATORS[a].symbols : a \in 1..Len(FILTER_RE_OPERATORS)}

\* the operator string of the characters of a supported operator
OperatorString(symbols) ==
    FILTER_RE_OPERATORS[CHOOSE a \in 1..Len(FILTER_RE_OPERATORS) :
                            FILTER_RE_OPERATORS[a].symbols = symbols].op

\* the filter has a name, some operator and something after its first
\* character
HasShape == arguments.value # <<>> \/ Len(arguments.op) > 1

NoOperator == \A n \in 1..Len(arguments.op) : SubSeq(arguments.op, 1, n) \notin Written

LiteralForms ==
    {<<Word(<<"1">>)>>, <<Word(<<"1", "5">>)>>,
     <<Symbol("'"), Word(<<"us">>), Symbol("'")>>,
     <<Word(<<"true">>)>>, <<Word(<<"false">>)>>, <<Word(<<"null">>)>>}

\* C15, as stated: for the name of a column and a supported operator,
\* get_filter returns a comparison with the value for each of the forms
\* number, quoted string, true, false and null, and raises the
\* invalid-value error for none of them.
C15_LiteralFormsAccepted ==
    (FilterReturned /\ arguments.name \in arguments.columns
        /\ arguments.op \in Written /\ arguments.value \in LiteralForms)
        => /\ returned.exception = "none"
           /\ returned.value = arguments.value


-----------------------------------------------------------------------------
(* find_on_clause called on its own *)

OnClauseInit ==
    /\ called = "none"
    /\ arguments \in [node : NodeNames, dimension : NodeNames]
    /\ returned = <<>>
    /\ VerifierIdle
    /\ BuilderIdle

\* find_on_clause(node, source, dimension, subquery) is called
FindOnClause ==
    /\ called = "none"
    /\ called' = "find_on_clause"
    /\ returned' = find_on_clause(arguments.node, arguments.dimension)
    /\ UNCHANGED <<arguments, verifier_vars, builder_vars>>

OnClauseNext == FindOnClause

OnClauseSpec == OnClauseInit /\ [][OnClauseNext]_vars

\* the columns of the parents of a node, as <<parent index, column index>>
ParentColumns(name) ==
    UNION {{<<p, c>> : c \in 1..Len(Columns(Parents(name)[p]))} :
            p \in 1..Len(Parents(name))}

\* the column at a place of ParentColumns
ColumnAt(name, place) == Columns(Parents(name)[place[1]])[place[2]]

\* parents in declared order, the columns of each in order
Before(a, b) == a[1] < b[1] \/ (a[1] = b[1] /\ a[2] < b[2])

\* the columns of the parents that are linked to the dimension
LinkedColumns(name, dimension) ==
    {place \in ParentColumns(name) : ColumnAt(name, place).dimension = dimension}

\* C16: find_on_clause raises the no-columns-with-dimension error, naming
\* the node and the dimension, exactly when no column of a parent is linked
\* to the dimension; otherwise it returns the equality of the first linked
\* column, parents in declared order and the columns of each in order, with
\* the declared dimension column of the link or, when none is declared, the
\* default dimension column.
C16_FirstLinkedColumn ==
    called = "find_on_clause" =>
        LET linked == LinkedColumns(arguments.node, arguments.dimension)
        IN  /\ linked = {} <=> returned.exception = "has no columns with dimension"
            /\ linked = {} =>
                /\ returned.node = arguments.node
                /\ returned.dimension = arguments.dimension
            /\ linked # {} =>
                \E place \in linked :
                    LET column == ColumnAt(arguments.node, place)
                    IN  /\ \A other \in linked : other = place \/ Before(place, other)
                        /\ returned.exception = "none"
                        /\ returned.left =
                             <<Parents(arguments.node)[place[1]], column.name>>
                        /\ returned.right =
                             <<arguments.dimension,
                               IF column.dimension_column = None
                               THEN DEFAULT_DIMENSION_COLUMN
                               ELSE column.dimension_column>>

\* the equality has been returned for a node with three columns linked to
\* the dimension, in two parents, after a parent without columns
C16_Witness ==
    /\ called = "find_on_clause"
    /\ returned.exception = "none"
    /\ Cardinality(LinkedColumns(arguments.node, arguments.dimension)) = 3
    /\ Columns(Parents(arguments.node)[1]) = <<>>


-----------------------------------------------------------------------------
(* Properties of the statement get_query_for_node builds *)

\* C17, as stated: in the statement built, every group-by is in the
\* projection and no column occurs twice in the projection.
C17_GroupbysOnceInProjection ==
    Succeeded =>
        /\ Range(groupbys) \subseteq Range(node_select.projection)
        /\ \A n, m \in 1..Len(node_select.projection) :
                node_select.projection[n] = node_select.projection[m] => n = m


-----------------------------------------------------------------------------
(* get_new_projection_and_from.  A string is written as above: <<name>>    *)
(* without a dot, <<name, column>> with one.  An optional value is a list   *)
(* of at most one element.  The items of a projection are the records of    *)
(* the verifier: an item with a function holds a function call on expr.     *)

\* the nodes that have an expression is_metric accepts
Metrics == {"child", "revenue", "total"}

\* the expression of a metric node: its projection and its first FROM source
MetricSelect(name) ==
    CASE name = "child"   -> [projection |-> <<[func |-> "COUNT", expr |-> Value]>>,
                              from |-> "parent"]
      [] name = "revenue" -> [projection |-> <<[func |-> "SUM",
                                                expr |-> Identifier(<<"amount">>)]>>,
                              from |-> "purchases"]
      [] OTHER            -> [projection |-> <<[func |-> "SUM",
                                                expr |-> Identifier(<<"one">>)],
                                               [func |-> "COUNT", expr |-> Value]>>,
                              from |-> "my_table"]

\* an item of a projection
SqlItem(tag, func, expr, alias) ==
    [tag |-> tag, alias |-> alias, func |-> func, expr |-> expr]

Wildcard == SqlItem("Wildcard", None, Value, <<>>)

\* the expression of an item is an identifier or a compound identifier
IsName(item) == item.func = None /\ item.expr.tag \in {"Identifier", "CompoundIdentifier"}

\* the name an item refers to: the value of the identifier, or the values
\* of the compound identifier joined with dots
ItemName(item) ==
    IF item.expr.tag = "Identifier"
    THEN item.expr.parts[1].value
    ELSE <<item.expr.parts[1].value[1], item.expr.parts[2].value[1]>>

\* the node with a name, if there is one
NodeNamed(name) == IF Len(name) = 1 /\ name[1] \in NodeNames THEN <<name[1]>> ELSE <<>>

\* the state of the loop of get_new_projection_and_from before its first
\* iteration
NewProjectionStart(parents) ==
    [exception |-> "none", named |-> <<>>, bound |-> FALSE, expression |-> <<>>,
     parents |-> parents, new_projection |-> <<>>, new_from |-> <<>>]

\* a faulty variant of Substituted: the alias is always the name
SubstitutedAsName(item, metric) ==
    SqlItem("ExprWithAlias",
            MetricSelect(metric).projection[1].func,
            MetricSelect(metric).projection[1].expr,
            <<Quoted(ItemName(item))>>)

\* the item that replaces an item naming a metric
Substituted(item, metric) ==
    SqlItem("ExprWithAlias",
            MetricSelect(metric).projection[1].func,
            MetricSelect(metric).projection[1].expr,
            IF item.tag = "ExprWithAlias" THEN item.alias
            ELSE <<Quoted(ItemName(item))>>)

\* the comparison of the parents collected with those of a metric
SameParents(parents, others) == Range(parents) = Range(others)

\* one iteration of the loop of get_new_projection_and_from
NewProjectionStep(loop, item) ==
    IF item.tag \notin {"UnnamedExpr", "ExprWithAlias"}
    THEN IF loop.bound
         THEN [loop EXCEPT !.exception = "NotImplementedError",
                           !.named = loop.expression]
         ELSE [loop EXCEPT !.exception = "UnboundLocalError"]
    ELSE LET seen == [loop EXCEPT !.bound = TRUE,
                                  !.expression = <<[func |-> item.func, expr |-> item.expr]>>]
             kept == [seen EXCEPT !.new_projection = Append(@, item)]
         IN  IF ~IsName(item) THEN kept
             ELSE IF NodeNamed(ItemName(item)) = <<>> THEN kept
             ELSE LET metric == NodeNamed(ItemName(item))[1]
                  IN  IF metric \notin Metrics
                      THEN [seen EXCEPT !.exception = "Not a valid metric",
                                        !.named = <<ItemName(item)>>]
                      ELSE IF seen.parents # <<>>
                              /\ ~SameParents(seen.parents, Parents(metric))
                      THEN [seen EXCEPT !.exception =
                                            "All metrics should have the same parents"]
                      ELSE [seen EXCEPT
                              !.parents = IF seen.parents = <<>> THEN Parents(metric)
                                          ELSE seen.parents,
                              !.new_projection = Append(@, Substituted(item, metric)),
                              !.new_from = Append(@, MetricSelect(metric).from)]

\* the loop of get_new_projection_and_from over the items from n on
RECURSIVE NewProjectionLoop(_, _, _)
NewProjectionLoop(loop, projection, n) ==
    IF n > Len(projection) \/ loop.exception # "none" THEN loop
    ELSE NewProjectionLoop(NewProjectionStep(loop, projection[n]), projection, n + 1)

\* get_new_projection_and_from(session, projection, parents): the exception
\* it raises or the projection and the FROM sources it returns, and the list
\* parents as the call leaves it
get_new_projection_and_from(projection, parents) ==
    NewProjectionLoop(NewProjectionStart(parents), projection, 1)


-----------------------------------------------------------------------------
(* replace_dimension_references.  The parts of the select are lists of      *)
(* items; an item of the selection, the group-by or the sort-by has the     *)
(* tag "Expr".                                                             *)

\* the expression of an item holds an identifier with a dot
Dotted(item) == item.expr.tag = "Identifier" /\ Len(item.expr.parts[1].value) = 2

\* a faulty variant of ReplaceReference: the identifier is kept
ReplaceReferenceKept(item) == item

\* the item after its identifier was replaced by the compound identifier
ReplaceReference(item) ==
    LET split == RSplit(item.expr.parts[1].value)
    IN  [item EXCEPT !.expr = CompoundIdentifier(<<Quoted(<<split.name>>),
                                                   Quoted(<<split.column>>)>>)]

\* the items of the four parts, in the order of the loops
PartItems(query_select) ==
    query_select.projection \o query_select.selection \o query_select.group_by
        \o query_select.sort_by

\* the places of the identifiers that make replace_dimension_references raise
InvalidReferences(query_select, parents) ==
    {n \in 1..Len(PartItems(query_select)) :
        /\ Dotted(PartItems(query_select)[n])
        /\ RSplit(PartItems(query_select)[n].expr.parts[1].value).name
                \notin Range(parents)}

\* a part after the loops: the identifiers at the places before limit are
\* replaced; offset is the number of items in the parts before this one
ReplacePart(part, offset, limit) ==
    [n \in 1..Len(part) |->
        IF offset + n < limit /\ Dotted(part[n]) THEN ReplaceReference(part[n])
        ELSE part[n]]

\* replace_dimension_references(query_select, parents): the exception it
\* raises, with the name in its message, and the select as it leaves it
replace_dimension_references(query_select, parents) ==
    LET invalid == InvalidReferences(query_select, parents)
        limit == IF invalid = {} THEN Len(PartItems(query_select)) + 1
                 ELSE First(invalid)
        after_projection == Len(query_select.projection)
        after_selection == after_projection + Len(query_select.selection)
        after_group_by == after_selection + Len(query_select.group_by)
    IN  [exception |-> IF invalid = {} THEN "none" ELSE "Invalid identifier",
         named |-> IF invalid = {} THEN <<>>
                   ELSE <<RSplit(PartItems(query_select)[limit].expr.parts[1].value).name>>,
         query_select |->
            [query_select EXCEPT
                !.projection = ReplacePart(@, 0, limit),
                !.selection = ReplacePart(@, after_projection, limit),
                !.group_by = ReplacePart(@, after_selection, limit),
                !.sort_by = ReplacePart(@, after_group_by, limit)]]

-----------------------------------------------------------------------------
(* get_query_for_sql: the rewrite of the parsed query *)

ProjectionItems ==
    {SqlItem("UnnamedExpr", None, Identifier(<<"child">>), <<>>),
     SqlItem("ExprWithAlias", None, Identifier(<<"revenue">>), <<Ident(<<"r">>)>>),
     SqlItem("UnnamedExpr", None, Identifier(<<"total">>), <<>>),
     SqlItem("UnnamedExpr", None, Identifier(<<"parent", "ds">>), <<>>),
     SqlItem("UnnamedExpr", None, Identifier(<<"nosuch", "day">>), <<>>),
     SqlItem("UnnamedExpr", None, Identifier(<<"parent">>), <<>>),
     SqlItem("UnnamedExpr", None, Identifier(<<"unknown">>), <<>>),
     SqlItem("UnnamedExpr", "MAX", Identifier(<<"parent", "foo">>), <<>>),
     SqlItem("UnnamedExpr", None,
             CompoundIdentifier(<<Ident(<<"parent">>), Ident(<<"ds">>)>>), <<>>),
     Wildcard}

Projections == SeqsUpTo(ProjectionItems, MaxProjection) \ {<<>>}

Selections ==
    {<<>>,
     <<SqlItem("Expr", ">", Identifier(<<"parent", "user_id">>), <<>>)>>,
     <<SqlItem("Expr", ">", Identifier(<<"purchases", "amount">>), <<>>)>>}

GroupBys ==
    {<<>>,
     <<SqlItem("Expr", None, Identifier(<<"parent", "ds">>), <<>>)>>,
     <<SqlItem("Expr", None, Identifier(<<"unknown">>), <<>>)>>}

SortBys == {<<>>, <<SqlItem("Expr", None, Identifier(<<"parent", "foo">>), <<>>)>>}

SqlInit ==
    /\ called = "none"
    /\ arguments \in [projection : Projections, from : {<<"metrics">>},
                      selection : Selections, group_by : GroupBys, sort_by : SortBys]
    /\ returned = <<>>
    /\ VerifierIdle
    /\ BuilderIdle

\* get_new_projection_and_from is called with the projection of the query
\* and an empty list of parents, and the select is updated with its result
GetNewProjectionAndFrom ==
    /\ called = "none"
    /\ called' = "get_new_projection_and_from"
    /\ LET new == get_new_projection_and_from(arguments.projection, <<>>)
       IN  returned' =
             [exception |-> new.exception, named |-> new.named,
              parents |-> new.parents, new_projection |-> new.new_projection,
              new_from |-> new.new_from,
              query_select |->
                 IF new.exception = "none"
                 THEN [arguments EXCEPT !.from = new.new_from,
                                        !.projection = new.new_projection]
                 ELSE arguments]
    /\ UNCHANGED <<arguments, verifier_vars, builder_vars>>

\* replace_dimension_references is called with the updated select and the
\* parents of the metrics
ReplaceDimensionReferences ==
    /\ called = "get_new_projection_and_from"
    /\ returned.exception = "none"
    /\ called' = "replace_dimension_references"
    /\ LET replaced == replace_dimension_references(returned.query_select, returned.parents)
       IN  returned' = [returned EXCEPT !.exception = replaced.exception,
                                        !.named = replaced.named,
                                        !.query_select = replaced.query_select]
    /\ UNCHANGED <<arguments, verifier_vars, builder_vars>>

SqlNext == GetNewProjectionAndFrom \/ ReplaceDimensionReferences

SqlSpec == SqlInit /\ [][SqlNext]_vars


-----------------------------------------------------------------------------
(* Properties of get_new_projection_and_from *)

\* the quote_style of the identifiers the rewrite makes
DoubleQuote == "\""

NewProjectionReturned == called = "get_new_projection_and_from"

\* the places of a projection whose item names a metric
MetricPlaces(projection) ==
    {n \in 1..Len(projection) :
        /\ projection[n].tag # "Wildcard"
        /\ IsName(projection[n])
        /\ NodeNamed(ItemName(projection[n])) # <<>>
        /\ NodeNamed(ItemName(projection[n]))[1] \in Metrics}

MetricAt(projection, n) == ItemName(projection[n])[1]

\* the places of a projection whose item makes the call fail for another
\* reason: an item that is no expression, or the name of a node that is no
\* metric
OtherFailures(projection) ==
    {n \in 1..Len(projection) :
        \/ projection[n].tag = "Wildcard"
        \/ /\ IsName(projection[n])
           /\ NodeNamed(ItemName(projection[n])) # <<>>
           /\ NodeNamed(ItemName(projection[n]))[1] \notin Metrics}

\* C18: when nothing else makes the call fail, get_new_projection_and_from
\* fails with "All metrics should have the same parents" exactly when two
\* metrics named in the projection have different sets of parents, in
\* whatever order they appear and also when one of them has no parents
C18_ParentMismatchReported ==
    NewProjectionReturned /\ OtherFailures(arguments.projection) = {}
        => (returned.exception = "All metrics should have the same parents"
            <=> \E m, n \in MetricPlaces(arguments.projection) :
                    Range(Parents(MetricAt(arguments.projection, m)))
                        # Range(Parents(MetricAt(arguments.projection, n))))

\* the place of the k-th metric of a projection
KthMetricPlace(projection, k) ==
    CHOOSE n \in MetricPlaces(projection) :
        Cardinality({m \in MetricPlaces(projection) : m <= n}) = k

\* C19: when get_new_projection_and_from succeeds the new projection has the
\* length and the order of the projection given; an item naming a metric is
\* an aliased expression of the first projection expression of the metric,
\* under the alias of the item or else under the quoted name of the metric;
\* every other item is the item given; and the new FROM holds one source for
\* each item naming a metric, in their order
C19_RewrittenByPosition ==
    NewProjectionReturned /\ returned.exception = "none"
        => LET projection == arguments.projection
               places == MetricPlaces(projection)
           IN  /\ Len(returned.new_projection) = Len(projection)
               /\ \A n \in 1..Len(projection) :
                    IF n \in places
                    THEN LET new == returned.new_projection[n]
                             first == MetricSelect(MetricAt(projection, n)).projection[1]
                         IN  /\ new.tag = "ExprWithAlias"
                             /\ new.func = first.func
                             /\ new.expr = first.expr
                             /\ new.alias =
                                  IF projection[n].alias # <<>> THEN projection[n].alias
                                  ELSE <<[value |-> <<MetricAt(projection, n)>>,
                                          quote_style |-> DoubleQuote]>>
                    ELSE returned.new_projection[n] = projection[n]
               /\ Len(returned.new_from) = Cardinality(places)
               /\ \A k \in 1..Len(returned.new_from) :
                    returned.new_from[k] =
                        MetricSelect(MetricAt(projection, KthMetricPlace(projection, k))).from

\* a projection with a metric under an alias, a metric without one and an
\* item that names no node was rewritten
C19_Witness ==
    /\ NewProjectionReturned
    /\ returned.exception = "none"
    /\ \E m \in MetricPlaces(arguments.projection) : arguments.projection[m].alias # <<>>
    /\ Len(arguments.projection) > Cardinality(MetricPlaces(arguments.projection))

-----------------------------------------------------------------------------
(* Properties of replace_dimension_references *)

PartNames == {"projection", "selection", "group_by", "sort_by"}

\* the select replace_dimension_references was called with
SelectBefore ==
    [arguments EXCEPT !.from = returned.new_from,
                      !.projection = returned.new_projection]

DimensionReferencesReplaced ==
    called = "replace_dimension_references" /\ returned.exception = "none"

-----------------------------------------------------------------------------
(* Properties of the rewrite of get_query_for_sql *)

\* the names of the columns of the parents the metrics have
ParentColumnNames(parents) ==
    UNION {{Columns(parents[p])[c].name : c \in 1..Len(Columns(parents[p]))} :
              p \in 1..Len(parents)}

\* the item holds an identifier without a dot that names no metric and no
\* column of the parents
Unresolved(item, parents) ==
    /\ item.expr.tag = "Identifier"
    /\ Len(item.expr.parts[1].value) = 1
    /\ item.expr.parts[1].value[1] \notin Metrics
    /\ item.expr.parts[1].value[1] \notin ParentColumnNames(parents)

\* the rewrite went through both steps without an exception
Rewritten == called = "replace_dimension_references" /\ returned.exception = "none"

\* C21: a name without a dot in the projection, the selection, the group-by
\* or the sort-by that is neither a metric nor a column of the parents makes
\* the rewrite fail: the rewrite never ends without an exception when the
\* query holds such a name
C21_UnresolvedNameFails ==
    Rewritten
        => \A n \in 1..Len(PartItems(arguments)) :
              ~Unresolved(PartItems(arguments)[n], returned.parents)

\* the places of the items that are neither an unnamed expression nor an
\* aliased expression
Unsupported(projection) ==
    {n \in 1..Len(projection) : projection[n].tag \notin {"UnnamedExpr", "ExprWithAlias"}}

\* C22: when the first item of a projection that is neither an unnamed nor
\* an aliased expression is reached, at whatever place and also at the
\* first, get_new_projection_and_from fails with a NotImplementedError that
\* names this item
C22_UnsupportedItemReported ==
    (/\ NewProjectionReturned
     /\ Unsupported(arguments.projection) # {}
     /\ get_new_projection_and_from(
            SubSeq(arguments.projection, 1, First(Unsupported(arguments.projection)) - 1),
            <<>>).exception = "none")
        => LET item == arguments.projection[First(Unsupported(arguments.projection))]
           IN  /\ returned.exception = "NotImplementedError"
               /\ returned.named = <<[func |-> item.func, expr |-> item.expr]>>


-----------------------------------------------------------------------------
(* The column of the typed syntax tree and its rendering.  A rendered       *)
(* string is the sequence of its pieces.                                    *)

\* Name(name, quote_style)
AstName(name, quote_style) == [name |-> name, quote_style |-> quote_style]

\* Namespace(names): the list of its names
Namespace(names) == names

\* Table(name) with the namespace it may have
AstTable(name, namespace) == [name |-> name, namespace |-> namespace]

\* Column(name): a column that is not qualified
AstColumn(name) == [name |-> name, table |-> <<>>, namespace |-> <<>>]

Qualified(column) == column.table # <<>> \/ column.namespace # <<>>

\* a faulty variant of add_table: the last table is kept
add_table_last(column, table) == [column EXCEPT !.table = <<table>>, !.namespace = <<>>]

\* Column.add_table(table)
add_table(column, table) ==
    IF Qualified(column) THEN column ELSE [column EXCEPT !.table = <<table>>]

\* Column.add_namespace(namespace)
add_namespace(column, namespace) ==
    IF Qualified(column) THEN column ELSE [column EXCEPT !.namespace = namespace]

\* the names a column is qualified with, outermost first
Qualification(column) ==
    IF column.table # <<>>
    THEN column.table[1].namespace \o <<column.table[1].name>>
    ELSE column.namespace

\* sql(Name)
sql_name(name) == <<name.quote_style, name.name, name.quote_style>>

\* the names of a list rendered and joined with dots
RECURSIVE sql_names(_)
sql_names(names) ==
    IF names = <<>> THEN <<>>
    ELSE IF Len(names) = 1 THEN sql_name(names[1])
    ELSE sql_name(names[1]) \o <<".">> \o sql_names(Tail(names))

\* a faulty variant of sql_column: a namespace is not rendered
sql_column_table(column) ==
    IF column.table # <<>>
    THEN sql_names(Qualification(column) \o <<column.name>>)
    ELSE sql_name(column.name)

\* sql(Column)
sql_column(column) == sql_names(Qualification(column) \o <<column.name>>)

\* sql(Query) of the query that projects one column from one table
sql(column, table) ==
    <<"SELECT ">> \o sql_column(column) \o <<" FROM ">>
        \o sql_names(table.namespace \o <<table.name>>)

AstNames == {AstName("a", ""), AstName("b", ""), AstName("a", "\"")}

AstTables ==
    {AstTable(name, namespace) : name \in AstNames,
                                 namespace \in {<<>>, <<AstName("s", "")>>}}

Namespaces ==
    {Namespace(<<name>>) : name \in AstNames}
        \cup {Namespace(<<AstName("s", ""), name>>) : name \in AstNames}

\* a call made on a column
Apply(column, made) ==
    IF made.op = "add_table" THEN add_table(column, made.table[1])
    ELSE add_namespace(column, made.namespace)

\* the column x after a list of calls
RECURSIVE Replay(_)
Replay(calls) ==
    IF calls = <<>> THEN AstColumn(AstName("x", ""))
    ELSE Apply(Replay(SubSeq(calls, 1, Len(calls) - 1)), calls[Len(calls)])

\* the table of the FROM of the query rendered
FromTable == AstTable(AstName("a", ""), <<>>)

\* arguments holds the calls made on the column, returned the column and
\* the string of the query once it was rendered
ColumnInit ==
    /\ called = "Column"
    /\ arguments = <<>>
    /\ returned = [column |-> AstColumn(AstName("x", "")), sql |-> <<>>]
    /\ VerifierIdle
    /\ BuilderIdle

AddTable ==
    /\ called = "Column"
    /\ Len(arguments) < MaxCalls
    /\ \E table \in AstTables :
         /\ arguments' = Append(arguments, [op |-> "add_table", table |-> <<table>>,
                                            namespace |-> <<>>])
         /\ returned' = [returned EXCEPT !.column = add_table(@, table)]
    /\ UNCHANGED <<called, verifier_vars, builder_vars>>

AddNamespace ==
    /\ called = "Column"
    /\ Len(arguments) < MaxCalls
    /\ \E namespace \in Namespaces :
         /\ arguments' = Append(arguments, [op |-> "add_namespace", table |-> <<>>,
                                            namespace |-> namespace])
         /\ returned' = [returned EXCEPT !.column = add_namespace(@, namespace)]
    /\ UNCHANGED <<called, verifier_vars, builder_vars>>

\* the query that projects the column is rendered
Sql ==
    /\ called = "Column"
    /\ called' = "sql"
    /\ returned' = [returned EXCEPT !.sql = sql(returned.column, FromTable)]
    /\ UNCHANGED <<arguments, verifier_vars, builder_vars>>

ColumnNext == AddTable \/ AddNamespace \/ Sql

ColumnSpec == ColumnInit /\ [][ColumnNext]_vars

-----------------------------------------------------------------------------
(* Properties of the column *)

\* C23: after any list of add_table and add_namespace calls the column is
\* the column after the first call alone: a call on a qualified column
\* changes nothing
C23_FirstQualificationKept ==
    called \in {"Column", "sql"} /\ arguments # <<>>
        => returned.column = Replay(<<arguments[1]>>)

\* a table was added to a column that another table was added to before
C23_Witness ==
    /\ called = "Column"
    /\ Len(arguments) = 2
    /\ arguments[1].op = "add_table"
    /\ arguments[2].op = "add_table"
    /\ arguments[1].table[1].name.name = "a"
    /\ arguments[2].table[1].name.name = "b"
    /\ returned.column.table[1].name.name = "a"

\* a list of calls in which a first call add_table(Table(t)) is replaced by
\* add_namespace(Namespace([t]))
WithNamespace(calls) ==
    [calls EXCEPT ![1] = [op |-> "add_namespace", table |-> <<>>,
                          namespace |-> Namespace(<<calls[1].table[1].name>>)]]

FirstCallAddsTable ==
    /\ arguments # <<>>
    /\ arguments[1].op = "add_table"
    /\ arguments[1].table[1].namespace = <<>>

\* C24: the string of a query whose column was qualified with
\* add_table(Table(t)) is the string of the same query with the column
\* qualified with add_namespace(Namespace([t]))
C24_RenderedAlike ==
    called = "sql" /\ FirstCallAddsTable
        => returned.sql = sql(Replay(WithNamespace(arguments)), FromTable)

\* the query with the column x of table a was rendered as SELECT a.x FROM a
C24_Witness ==
    /\ called = "sql"
    /\ FirstCallAddsTable
    /\ arguments[1].table[1].name = AstName("a", "")
    /\ returned.sql = <<"SELECT ", "", "a", "", ".", "", "x", "", " FROM ", "", "a", "">>


-----------------------------------------------------------------------------
(* get_dimensions called on its own, for a node with the given parents *)

\* the nodes that have columns, and a node without any
ParentNodes == {"parent", "users", "dates", "purchases", "events", "bare"}

\* get_dimensions(node) as the list it returns, for a node with these parents
get_dimensions_list(parents) ==
    Sorted(UNION {UNION {ColumnDimensions(parents[p], column) :
                            column \in Range(Columns(parents[p]))} :
                    p \in 1..Len(parents)})

DimensionsInit ==
    /\ called = "none"
    /\ arguments \in SeqsUpTo(ParentNodes, MaxParents)
    /\ returned = <<>>
    /\ VerifierIdle
    /\ BuilderIdle

GetDimensions ==
    /\ called = "none"
    /\ called' = "get_dimensions"
    /\ returned' = get_dimensions_list(arguments)
    /\ UNCHANGED <<arguments, verifier_vars, builder_vars>>

DimensionsNext == GetDimensions

DimensionsSpec == DimensionsInit /\ [][DimensionsNext]_vars

-----------------------------------------------------------------------------
(* Properties of get_dimensions *)

\* C25: the list get_dimensions returns holds <parent>.<column> for every
\* column of every parent and <dimension>.<column> for every column of the
\* dimension node a column of a parent is linked to; no string is in it
\* twice, and it is in ascending order
C25_DimensionsListed ==
    called = "get_dimensions"
        => /\ \A p \in 1..Len(arguments) :
                \A c \in 1..Len(Columns(arguments[p])) :
                    LET column == Columns(arguments[p])[c]
                    IN  /\ \E n \in 1..Len(returned) :
                            returned[n] = <<arguments[p], column.name>>
                        /\ column.dimension # None
                            => \A d \in 1..Len(Columns(column.dimension)) :
                                  \E n \in 1..Len(returned) :
                                      returned[n] = <<column.dimension,
                                                      Columns(column.dimension)[d].name>>
           /\ \A m, n \in 1..Len(returned) :
                m < n => Position(returned[m]) < Position(returned[n])

\* the dimensions of a node over parent are parent.ds, parent.foo and
\* parent.user_id, among those of the nodes its columns are linked to
C25_Witness ==
    /\ called = "get_dimensions"
    /\ arguments = <<"parent">>
    /\ returned = <<<<"dates", "ds">>, <<"dates", "week">>, <<"parent", "ds">>,
                    <<"parent", "foo">>, <<"parent", "user_id">>, <<"users", "country">>,
                    <<"users", "id">>>>


-----------------------------------------------------------------------------
(* Properties of the referenced columns of get_query_for_node *)

\* C27: when get_query_for_node calls get_database_for_nodes, every
\* requested dimension <name>.<column> whose <name> is no parent of the node
\* has <column> among the referenced columns of <name>, also when several
\* requested dimensions have the same <name>, and <name> is among the nodes
\* passed exactly once
C27_RequestedColumnsReferenced ==
    FindingDatabase
        => \A dimension \in requested_dimensions :
              RSplit(dimension).name \notin Range(Parents(node))
                  => /\ RSplit(dimension).column
                            \in referenced_columns[RSplit(dimension).name]
                     /\ Cardinality({n \in 1..Len(dimensions) :
                                        dimensions[n] = RSplit(dimension).name}) = 1


-----------------------------------------------------------------------------
(* upgrade() of the migration 6456b5e37e06.  arguments holds the rows of    *)
(* the table of databases after the column uuid was added, returned the     *)
(* rows as the loop leaves them and the number of rows it has processed.    *)

\* UUID(hex): the n-th value of uuid4() is <<"uuid4", n>>
UUID(hex) == <<hex, 0>>

DJ_DATABASE_UUID == UUID("a59d03c7-bb00-469d-88fc-f60aff36aa3b")

SQLITE_DATABASE_ID == -1

SQLITE_DATABASE_UUID == UUID("5918965d-0fb4-429a-8ca7-9b4794dbb9c1")

\* the values uuid4() returns
Uuid4s == {<<"uuid4", n>> : n \in 1..MaxRows + 1}

\* the ids of the rows
RowIds == {SQLITE_DATABASE_ID, DJ_DATABASE_ID, 1, 2}

\* the tables of databases: rows with different ids and no uuid yet, in the
\* order the query yields them
DatabaseRows ==
    {rows \in SeqsUpTo([id : RowIds, uuid : {<<>>}], MaxRows) :
        \A m, n \in 1..Len(rows) : m # n => rows[m].id # rows[n].id}

\* the uuids of the rows
Uuids(rows) == UNION {Range(rows[n].uuid) : n \in 1..Len(rows)}

UpgradeInit ==
    /\ called = "upgrade"
    /\ arguments \in DatabaseRows
    /\ returned = [rows |-> arguments, processed |-> 0]
    /\ VerifierIdle
    /\ BuilderIdle

\* one iteration of "for database in session.query(Database)"
UpgradeRow ==
    /\ called = "upgrade"
    /\ returned.processed < Len(returned.rows)
    /\ LET n == returned.processed + 1
           database_ == returned.rows[n]
           first == IF database_.id = DJ_DATABASE_ID
                    THEN [database_ EXCEPT !.uuid = <<DJ_DATABASE_UUID>>]
                    ELSE database_
       IN  \E fresh \in Uuid4s \ Uuids(returned.rows) :
              LET second == IF first.id = SQLITE_DATABASE_ID
                            THEN [first EXCEPT !.uuid = <<SQLITE_DATABASE_UUID>>]
                            ELSE [first EXCEPT !.uuid = <<fresh>>]
              IN  returned' = [rows |-> [returned.rows EXCEPT ![n] = second],
                               processed |-> n]
    /\ UNCHANGED <<called, arguments, verifier_vars, builder_vars>>

\* after the loop: the column uuid is made not nullable
UpgradeDone ==
    /\ called = "upgrade"
    /\ returned.processed = Len(returned.rows)
    /\ called' = "upgraded"
    /\ UNCHANGED <<arguments, returned, verifier_vars, builder_vars>>

UpgradeNext == UpgradeRow \/ UpgradeDone

UpgradeSpec == UpgradeInit /\ [][UpgradeNext]_vars

-----------------------------------------------------------------------------
(* Properties of the migration *)

\* C29: after upgrade() has processed the rows, the row with the id
\* DJ_DATABASE_ID has the uuid DJ_DATABASE_UUID, the row with the id
\* SQLITE_DATABASE_ID has the uuid SQLITE_DATABASE_UUID, every other row has
\* a uuid that uuid4() made, and no row is without a uuid
C29_KnownRowsKeepKnownUuids ==
    called = "upgraded"
        => \A n \in 1..Len(returned.rows) :
              LET row == returned.rows[n]
              IN  /\ row.uuid # <<>>
                  /\ row.id = DJ_DATABASE_ID => row.uuid = <<DJ_DATABASE_UUID>>
                  /\ row.id = SQLITE_DATABASE_ID => row.uuid = <<SQLITE_DATABASE_UUID>>
                  /\ row.id \notin {DJ_DATABASE_ID, SQLITE_DATABASE_ID}
                        => row.uuid[1] \in Uuid4s


-----------------------------------------------------------------------------
(* Connection.  returned holds the connection: its flag closed, its list    *)
(* cursors (each cursor with the flag closed it has), and whether the last  *)
(* call raised; arguments holds the cursors the calls have returned, in     *)
(* order; called is the last method called.                                 *)

\* Connection(base_url)
ConnectionInit ==
    /\ called = "__init__"
    /\ arguments = <<>>
    /\ returned = [closed |-> FALSE, cursors |-> <<>>, raised |-> FALSE]
    /\ VerifierIdle
    /\ BuilderIdle

\* @check_closed: the call raises on a closed connection and changes nothing
CheckClosed(method) ==
    /\ returned.closed
    /\ called' = method
    /\ returned' = [returned EXCEPT !.raised = TRUE]
    /\ UNCHANGED arguments

\* a new cursor appended to the list and returned
NewCursor(executed) ==
    LET cursor == [id |-> Len(returned.cursors) + 1, closed |-> FALSE,
                   executed |-> executed]
    IN  /\ returned' = [returned EXCEPT !.cursors = Append(@, cursor), !.raised = FALSE]
        /\ arguments' = Append(arguments, cursor.id)

\* a faulty variant of ConnectionClose: the cursors are left open
ConnectionCloseFlagOnly ==
    /\ \/ CheckClosed("close")
       \/ /\ ~returned.closed
          /\ called' = "close"
          /\ returned' = [returned EXCEPT !.closed = TRUE, !.raised = FALSE]
          /\ UNCHANGED arguments
    /\ UNCHANGED <<verifier_vars, builder_vars>>

\* Connection.close()
ConnectionClose ==
    /\ \/ CheckClosed("close")
       \/ /\ ~returned.closed
          /\ called' = "close"
          /\ returned' = [returned EXCEPT
                             !.closed = TRUE,
                             !.raised = FALSE,
                             !.cursors = [n \in 1..Len(@) |-> [@[n] EXCEPT !.closed = TRUE]]]
          /\ UNCHANGED arguments
    /\ UNCHANGED <<verifier_vars, builder_vars>>

\* Connection.commit()
ConnectionCommit ==
    /\ \/ CheckClosed("commit")
       \/ /\ ~returned.closed
          /\ called' = "commit"
          /\ returned' = [returned EXCEPT !.raised = FALSE]
          /\ UNCHANGED arguments
    /\ UNCHANGED <<verifier_vars, builder_vars>>

\* Connection.rollback()
ConnectionRollback ==
    /\ \/ CheckClosed("rollback")
       \/ /\ ~returned.closed
          /\ called' = "rollback"
          /\ returned' = [returned EXCEPT !.raised = FALSE]
          /\ UNCHANGED arguments
    /\ UNCHANGED <<verifier_vars, builder_vars>>

\* Connection.cursor()
ConnectionCursor ==
    /\ \/ CheckClosed("cursor")
       \/ /\ ~returned.closed
          /\ Len(returned.cursors) < MaxCursors
          /\ called' = "cursor"
          /\ NewCursor(FALSE)
    /\ UNCHANGED <<verifier_vars, builder_vars>>

\* Connection.execute(operation, parameters)
ConnectionExecute ==
    /\ \/ CheckClosed("execute")
       \/ /\ ~returned.closed
          /\ Len(returned.cursors) < MaxCursors
          /\ called' = "execute"
          /\ NewCursor(TRUE)
    /\ UNCHANGED <<verifier_vars, builder_vars>>

\* Connection.__exit__(*exc): self.close()
ConnectionExit ==
    /\ \/ CheckClosed("__exit__")
       \/ /\ ~returned.closed
          /\ called' = "__exit__"
          /\ returned' = [returned EXCEPT
                             !.closed = TRUE,
                             !.raised = FALSE,
                             !.cursors = [n \in 1..Len(@) |-> [@[n] EXCEPT !.closed = TRUE]]]
          /\ UNCHANGED arguments
    /\ UNCHANGED <<verifier_vars, builder_vars>>

\* the caller closes a cursor it was given
CursorClose ==
    /\ \E n \in 1..Len(returned.cursors) :
         /\ ~returned.cursors[n].closed
         /\ returned' = [returned EXCEPT !.cursors[n].closed = TRUE, !.raised = FALSE]
    /\ called' = "Cursor.close"
    /\ UNCHANGED <<arguments, verifier_vars, builder_vars>>

ConnectionNext ==
    \/ ConnectionClose
    \/ ConnectionCommit
    \/ ConnectionRollback
    \/ ConnectionCursor
    \/ ConnectionExecute
    \/ ConnectionExit
    \/ CursorClose

ConnectionSpec == ConnectionInit /\ [][ConnectionNext]_vars

-----------------------------------------------------------------------------
(* Properties of the connection *)

ConnectionLive == called \in {"__init__", "close", "commit", "rollback", "cursor",
                              "execute", "__exit__", "Cursor.close"}

\* the cursors of the list, by the order in which they were made
CursorIds == [n \in 1..Len(returned.cursors) |-> returned.cursors[n].id]

====
